---------------------------- MODULE Spec2Model ----------------------------
(***************************************************************************)
(* A model of the schema-driven extraction pipeline of cv_analyzer:        *)
(*   - the extraction clients (llm_client/openai_client.py and             *)
(*     llm_client/litellm_client.py) with their correction retry and the   *)
(*     tenacity decorator that wraps extract_profile;                      *)
(*   - the batch orchestrator (app.py: process_all_cvs, process_single_cv);*)
(*   - the response validator (schema/validator.py).                       *)
(* Each part has its own specification; the variables of the other parts   *)
(* stay at their idle value.                                               *)
(***************************************************************************)
EXTENDS Integers, Sequences, FiniteSets, TLC

VARIABLES
    \* ---- extraction clients (SpecClient)
    script,         \* the responses the model stub has given so far, call by call
    pc,             \* per client: position in extract_profile
    attempt,        \* per client: tenacity's attempt_number
    retry_count,    \* per client: the retry_count local of extract_profile
    calls,          \* per client: number of model invocations made
    response_text,  \* per client: the last raw response
    exc,            \* per client: the exception being raised, or "none"
    exc_call,       \* per client: the model call whose failure exc reports
    trace,          \* per client: the states gone through
    \* ---- batch orchestrator (SpecBatch)
    schema_yaml,    \* the schema source typed by the user: "valid" or "invalid"
    schema,         \* what configure_schema returned: "unset", "None" or "schema"
    files,          \* all_files: per document, its selected flag and its source
    options,        \* advanced options: max_files, max_workers
    bpc,            \* position of the main thread in main / process_all_cvs
    selected_files, \* the documents submitted to the pool, in submission order
    task,           \* per document: state of its future / of process_single_cv
    result,         \* per result dict: the record process_single_cv is building
    fate,           \* per document: what its own collaborators answered
    results,        \* the results list of process_all_cvs
    errors,         \* the errors list of process_all_cvs
    \* ---- response validator (SpecValidator)
    v_schema,       \* the schema given to validate_extraction
    v_data,         \* the data given to validate_extraction
    v_out,          \* what validate_extraction returned
    vpc,            \* "input" before the call, "returned" after it
    \* ---- schema loader (SpecLoader)
    l_source,       \* the YAML document given to load_yaml_schema, parsed
    l_out,          \* what load_yaml_schema did: the schema returned or the error
    lpc,            \* "input" before the call, "returned" or "raised" after it
    \* ---- derived fields (SpecDerived)
    d_result,       \* the record given to calculate_derived_fields
    d_out,          \* what calculate_derived_fields did
    dpc,            \* "input" before the call, "returned" or "raised" after it
    \* ---- concurrent calls through one client object (SpecShared)
    s_client,       \* the class of the client object the worker threads share
    s_pc,           \* per document: position of its extract_profile call
    s_attempt,      \* per document: attempt number of the @retry decorator
    s_retry_count,  \* per document: the retry_count argument of its call
    s_responses,    \* per document: the responses the model gave to its call
    \* ---- the requests of one extract_profile call (SpecPrompt)
    rq_client,      \* the class of the client object
    rq_temperature, \* self.temperature, in tenths
    rq_text,        \* the document text given to extract_profile
    rq_pc,          \* position in extract_profile
    rq_attempt,     \* attempt number of the @retry decorator
    rq_requests,    \* the requests sent by the current run of the function body
    rq_response,    \* the response to the last request
    \* ---- the response parser (SpecParser)
    j_text,         \* the raw response given to parse_json_safely
    j_out,          \* what parse_json_safely did
    jpc,            \* "input" before the call, "returned" or "raised" after it
    \* ---- the record of one document (SpecRecord)
    r_file,         \* file_info["source"] of the document: "local" or "drive"
    r_schema,       \* the names of the fields the schema declares
    r_result,       \* the record process_single_cv returned
    rpc             \* "input" before the call, "returned" after it

clientVars == <<script, pc, attempt, retry_count, calls, response_text, exc,
                exc_call, trace>>

batchVars == <<schema_yaml, schema, files, options, bpc, selected_files, task,
               result, fate, results, errors>>

validatorVars == <<v_schema, v_data, v_out, vpc>>

loaderVars == <<l_source, l_out, lpc>>

derivedVars == <<d_result, d_out, dpc>>

sharedVars == <<s_client, s_pc, s_attempt, s_retry_count, s_responses>>

promptVars == <<rq_client, rq_temperature, rq_text, rq_pc, rq_attempt,
                rq_requests, rq_response>>

parserVars == <<j_text, j_out, jpc>>

recordVars == <<r_file, r_schema, r_result, rpc>>

\* What the actions of one part leave alone.
notClientVars == <<batchVars, validatorVars, loaderVars, derivedVars, sharedVars,
    promptVars, parserVars, recordVars>>
notBatchVars == <<clientVars, validatorVars, loaderVars, derivedVars, sharedVars,
    promptVars, parserVars, recordVars>>
notValidatorVars == <<clientVars, batchVars, loaderVars, derivedVars, sharedVars,
    promptVars, parserVars, recordVars>>
notLoaderVars == <<clientVars, batchVars, validatorVars, derivedVars, sharedVars,
    promptVars, parserVars, recordVars>>
notSharedVars == <<clientVars, batchVars, validatorVars, loaderVars, derivedVars,
    promptVars, parserVars, recordVars>>
notDerivedVars == <<clientVars, batchVars, validatorVars, loaderVars, sharedVars,
    promptVars, parserVars, recordVars>>

notPromptVars == <<clientVars, batchVars, validatorVars, loaderVars, derivedVars,
    sharedVars, parserVars, recordVars>>

notParserVars == <<clientVars, batchVars, validatorVars, loaderVars, derivedVars,
    sharedVars, promptVars, recordVars>>

notRecordVars == <<clientVars, batchVars, validatorVars, loaderVars, derivedVars,
    sharedVars, promptVars, parserVars>>

vars == <<clientVars, batchVars, validatorVars, loaderVars, derivedVars, sharedVars,
    promptVars, parserVars, recordVars>>

(***************************************************************************)
(* Extraction clients                                                      *)
(***************************************************************************)

Clients == {"OpenAI", "LiteLLM"}

\* What one model invocation can give: a response that parses and validates,
\* one that is not JSON, one that is JSON but breaks the schema, or a
\* transport / auth / rate-limit failure raised by the provider.
Outcomes == {"valid", "unparseable", "invalid", "provider_error"}

\* stop=stop_after_attempt(n) of the @retry decorator of extract_profile.
OpenAIStopAfterAttempt == 1
LiteLLMStopAfterAttempt == 3

stop_after_attempt(c) ==
    IF c = "OpenAI" THEN OpenAIStopAfterAttempt ELSE LiteLLMStopAfterAttempt

\* "if retry_count < 1:  # Solo 1 reintento"
MaxCorrections == 1

\* parse_json_safely(response_text) returns an error for text that is not a
\* JSON object.
parse_error(resp) == resp = "unparseable"

\* validate_extraction(data, schema)[0]
is_valid(resp) == resp = "valid"

Finished(c) == pc[c] \in {"accepted", "failed"}

\* The k-th invocation of the stub answers the same to every client: the
\* first client to make a k-th call draws the answer, the other reads it.
ModelCall(c, o) ==
    /\ calls[c] < Len(script) => o = script[calls[c] + 1]
    /\ script' = IF calls[c] < Len(script) THEN script ELSE Append(script, o)
    /\ calls' = [calls EXCEPT ![c] = @ + 1]

Goto(c, state) ==
    /\ pc' = [pc EXCEPT ![c] = state]
    /\ trace' = [trace EXCEPT ![c] = Append(@, state)]

\* The exceptions carry str(e) of the provider's failure, or the parse_error
\* / validation_error of the response just checked: the one of the latest
\* call (the call being made, for a provider failure).
Raise(c, e) ==
    /\ exc' = [exc EXCEPT ![c] = e]
    /\ exc_call' = [exc_call EXCEPT ![c] =
          IF e = "provider_error" THEN calls[c] + 1 ELSE calls[c]]
    /\ Goto(c, "raised")

\* The client under test is called once, with retry_count left at its
\* default: the OpenAI client first, the LiteLLM client after it.
CallExtractProfile(c) ==
    /\ pc[c] = "idle"
    /\ c = "LiteLLM" => Finished("OpenAI")
    /\ attempt' = [attempt EXCEPT ![c] = 1]
    /\ retry_count' = [retry_count EXCEPT ![c] = 0]
    /\ Goto(c, "drafting")
    /\ UNCHANGED <<script, calls, response_text, exc, exc_call, notClientVars>>

\* extract_profile: build the prompts and invoke the model.
Draft(c) ==
    /\ pc[c] = "drafting"
    /\ \E o \in Outcomes :
        /\ ModelCall(c, o)
        /\ IF o = "provider_error"
           THEN /\ Raise(c, "provider_error")
                /\ UNCHANGED response_text
           ELSE /\ response_text' = [response_text EXCEPT ![c] = o]
                /\ Goto(c, "parsing")
                /\ UNCHANGED <<exc, exc_call>>
    /\ UNCHANGED <<attempt, retry_count, notClientVars>>

\* extract_profile: data, parse_error = parse_json_safely(response_text)
Parse(c) ==
    /\ pc[c] = "parsing"
    /\ IF parse_error(response_text[c])
       THEN IF retry_count[c] < MaxCorrections
            THEN /\ retry_count' = [retry_count EXCEPT ![c] = @ + 1]
                 /\ Goto(c, "correcting")
                 /\ UNCHANGED <<exc, exc_call>>
            ELSE /\ Raise(c, "parse_error")
                 /\ UNCHANGED retry_count
       ELSE /\ Goto(c, "validating")
            /\ UNCHANGED <<retry_count, exc, exc_call>>
    /\ UNCHANGED <<script, calls, attempt, response_text, notClientVars>>

\* extract_profile: is_valid, validated_data, validation_error = validate_extraction(data, schema)
Validate(c) ==
    /\ pc[c] = "validating"
    /\ IF ~is_valid(response_text[c])
       THEN IF retry_count[c] < MaxCorrections
            THEN /\ retry_count' = [retry_count EXCEPT ![c] = @ + 1]
                 /\ Goto(c, "correcting")
                 /\ UNCHANGED <<exc, exc_call>>
            ELSE /\ Raise(c, "validation_error")
                 /\ UNCHANGED retry_count
       ELSE /\ Goto(c, "accepted")
            /\ UNCHANGED <<retry_count, exc, exc_call>>
    /\ UNCHANGED <<script, calls, attempt, response_text, notClientVars>>

\* _retry_with_correction: invoke the model with the correction prompt.
Correct(c) ==
    /\ pc[c] = "correcting"
    /\ \E o \in Outcomes :
        /\ ModelCall(c, o)
        /\ IF o = "provider_error"
           THEN /\ Raise(c, "provider_error")
                /\ UNCHANGED response_text
           ELSE /\ response_text' = [response_text EXCEPT ![c] = o]
                /\ Goto(c, "parsing_retry")
                /\ UNCHANGED <<exc, exc_call>>
    /\ UNCHANGED <<attempt, retry_count, notClientVars>>

\* _retry_with_correction: parse the corrected response.
ParseRetry(c) ==
    /\ pc[c] = "parsing_retry"
    /\ IF parse_error(response_text[c])
       THEN Raise(c, "parse_error")
       ELSE Goto(c, "validating_retry") /\ UNCHANGED <<exc, exc_call>>
    /\ UNCHANGED <<script, calls, attempt, retry_count, response_text, notClientVars>>

\* _retry_with_correction: validate the corrected response.
ValidateRetry(c) ==
    /\ pc[c] = "validating_retry"
    /\ IF ~is_valid(response_text[c])
       THEN Raise(c, "validation_error")
       ELSE Goto(c, "accepted") /\ UNCHANGED <<exc, exc_call>>
    /\ UNCHANGED <<script, calls, attempt, retry_count, response_text, notClientVars>>

\* The @retry decorator: every Exception out of extract_profile is retried
\* (the whole function, retry_count back at its default) until
\* stop_after_attempt is reached; then reraise=True raises it to the caller.
TenacityRetry(c) ==
    /\ pc[c] = "raised"
    /\ IF attempt[c] < stop_after_attempt(c)
       THEN /\ attempt' = [attempt EXCEPT ![c] = @ + 1]
            /\ retry_count' = [retry_count EXCEPT ![c] = 0]
            /\ Goto(c, "drafting")
       ELSE /\ Goto(c, "failed")
            /\ UNCHANGED <<attempt, retry_count>>
    /\ UNCHANGED <<script, calls, response_text, exc, exc_call, notClientVars>>

ClientIdle ==
    /\ script = << >>
    /\ pc = [c \in Clients |-> "idle"]
    /\ attempt = [c \in Clients |-> 0]
    /\ retry_count = [c \in Clients |-> 0]
    /\ calls = [c \in Clients |-> 0]
    /\ response_text = [c \in Clients |-> "none"]
    /\ exc = [c \in Clients |-> "none"]
    /\ exc_call = [c \in Clients |-> 0]
    /\ trace = [c \in Clients |-> << >>]

\* How a finished call ended, as the caller sees it.
Outcome(c) ==
    IF pc[c] = "accepted" THEN "accepted"
    ELSE IF exc[c] = "provider_error" THEN "provider_error"
    ELSE "rejected"

\* The responses client c has consumed so far.
Consumed(c) == SubSeq(script, 1, calls[c])

AllInvalid(s) == \A i \in 1..Len(s) : s[i] \in {"unparseable", "invalid"}

(***************************************************************************)
(* Concurrent calls of extract_profile through one client object:          *)
(* process_all_cvs gives the same llm_client to every worker thread.       *)
(* retry_count is an argument of extract_profile and of                    *)
(* _retry_with_correction, and the client object keeps no state of a call. *)
(***************************************************************************)

NumCalls == 2

Calls == 1..NumCalls

\* The retry_count a call reads and writes: its own argument.
RetryCountOf(d) == d

s_Finished(d) == s_pc[d] \in {"accepted", "failed"}

\* A worker thread calls llm_client.extract_profile for its document.
s_CallExtractProfile(d) ==
    /\ s_pc[d] = "idle"
    /\ s_attempt' = [s_attempt EXCEPT ![d] = 1]
    /\ s_retry_count' = [s_retry_count EXCEPT ![RetryCountOf(d)] = 0]
    /\ s_pc' = [s_pc EXCEPT ![d] = "drafting"]
    /\ UNCHANGED <<s_client, s_responses, notSharedVars>>

\* extract_profile / _retry_with_correction: the call of the model.
s_ModelCall(d) ==
    /\ s_pc[d] \in {"drafting", "correcting"}
    /\ \E o \in Outcomes :
          /\ s_responses' = [s_responses EXCEPT ![d] =
                Append(@, [prompt |-> IF s_pc[d] = "drafting" THEN "first"
                                                              ELSE "correction",
                           response |-> o])]
          /\ s_pc' = [s_pc EXCEPT ![d] =
                IF o = "provider_error" THEN "raised"
                ELSE IF s_pc[d] = "drafting" THEN "checking" ELSE "checking_retry"]
    /\ UNCHANGED <<s_client, s_attempt, s_retry_count, notSharedVars>>

\* extract_profile: parse_json_safely and validate_extraction on the first
\* response, and the test "if retry_count < 1".
s_Check(d) ==
    /\ s_pc[d] = "checking"
    /\ LET resp == s_responses[d][Len(s_responses[d])].response
           rc == RetryCountOf(d)
       IN  IF parse_error(resp) \/ ~is_valid(resp)
           THEN IF s_retry_count[rc] < MaxCorrections
                THEN /\ s_retry_count' = [s_retry_count EXCEPT ![rc] = @ + 1]
                     /\ s_pc' = [s_pc EXCEPT ![d] = "correcting"]
                ELSE /\ s_pc' = [s_pc EXCEPT ![d] = "raised"]
                     /\ UNCHANGED s_retry_count
           ELSE /\ s_pc' = [s_pc EXCEPT ![d] = "accepted"]
                /\ UNCHANGED s_retry_count
    /\ UNCHANGED <<s_client, s_attempt, s_responses, notSharedVars>>

\* _retry_with_correction: parse_json_safely and validate_extraction on the
\* corrected response.
s_CheckRetry(d) ==
    /\ s_pc[d] = "checking_retry"
    /\ LET resp == s_responses[d][Len(s_responses[d])].response
       IN  s_pc' = [s_pc EXCEPT ![d] =
              IF parse_error(resp) \/ ~is_valid(resp) THEN "raised" ELSE "accepted"]
    /\ UNCHANGED <<s_client, s_attempt, s_retry_count, s_responses, notSharedVars>>

\* The @retry decorator of the shared client's extract_profile.
s_TenacityRetry(d) ==
    /\ s_pc[d] = "raised"
    /\ IF s_attempt[d] < stop_after_attempt(s_client)
       THEN /\ s_attempt' = [s_attempt EXCEPT ![d] = @ + 1]
            /\ s_retry_count' = [s_retry_count EXCEPT ![RetryCountOf(d)] = 0]
            /\ s_pc' = [s_pc EXCEPT ![d] = "drafting"]
       ELSE /\ s_pc' = [s_pc EXCEPT ![d] = "failed"]
            /\ UNCHANGED <<s_attempt, s_retry_count>>
    /\ UNCHANGED <<s_client, s_responses, notSharedVars>>

SharedIdle ==
    /\ s_client = "OpenAI"
    /\ s_pc = [d \in Calls |-> "none"]
    /\ s_attempt = [d \in Calls |-> 0]
    /\ s_retry_count = [d \in Calls |-> 0]
    /\ s_responses = [d \in Calls |-> << >>]

(***************************************************************************)
(* Batch orchestrator: main, process_all_cvs, process_single_cv (app.py)   *)
(***************************************************************************)

\* Number of files listed in the session (all_files).
NumFiles == 3
\* Largest "Concurrencia maxima" tried.
MaxWorkers == 2

Docs == 1..NumFiles

\* The lists of files tried: uploads and Drive files alternate, and every
\* subset of them is ticked.
FileLists ==
    {[d \in Docs |-> [selected |-> d \in sel,
                      source |-> IF d % 2 = 0 THEN "drive" ELSE "local"]] :
        sel \in SUBSET Docs}

NoResult == [archivo |-> 0, fuente |-> "", link |-> "", error |-> "",
             sha1 |-> FALSE, extracted |-> FALSE, preaprobado |-> FALSE]

NoFate == [text |-> "none", llm |-> "none", derived |-> "none"]

\* file_info.get("link", ""): local uploads carry no link.
Link(d) == IF files[d].source = "drive" THEN "webViewLink" ELSE ""

\* str(e) of the exceptions process_single_cv can catch: every one of them is
\* raised with a message.
ErrorString(e) ==
    CASE e = "download_error" -> "Error descargando archivo"
      [] e = "parse_error"    -> "Error parseando"
      [] e = "empty_text"     -> "No se pudo extraer texto del archivo"
      [] e = "rejected"       -> "Validacion fallo en reintento"
      [] e = "provider_error" -> "Error llamando a LLM"
      [] e = "derived_error"  -> "The truth value of an array is ambiguous"

\* configure_schema: load_yaml_schema(schema_yaml) raises on an invalid source
\* and the function then returns None.
load_yaml_schema(src) == IF src = "valid" THEN "schema" ELSE "None"

\* Mutant of SchemaUsable: the schema check of process_all_cvs is missing.
SchemaUsable_NoCheck(s) == TRUE

\* process_all_cvs: "if not schema: ... return"
SchemaUsable(s) == s # "None"

\* selected_files = [f for f in files if f.get("selected", True)], then
\* selected_files[:max_files]
RECURSIVE Filter(_, _)
Filter(fs, d) ==
    IF d > NumFiles THEN << >>
    ELSE (IF fs[d].selected THEN <<d>> ELSE << >>) \o Filter(fs, d + 1)

Limit(s, n) == IF Len(s) > n THEN SubSeq(s, 1, n) ELSE s

SelectedFiles(fs, max_files) == Limit(Filter(fs, 1), max_files)

InSeq(s, x) == \E i \in 1..Len(s) : s[i] = x

\* Mutant of ResultOf: one result dict shared by every call.
ResultOf_Shared(d) == 1

\* The result dict a call of process_single_cv writes: each call builds its own.
ResultOf(d) == d

\* process_single_cv: result = {"archivo": ..., "fuente": ..., "link": ..., "error": ""}
NewResult(d) ==
    [archivo |-> d, fuente |-> files[d].source, link |-> Link(d), error |-> "",
     sha1 |-> FALSE, extracted |-> FALSE, preaprobado |-> FALSE]

\* A worker thread is inside process_single_cv for the document; "hung" is
\* a call of the model that does not return.
Running(d) == task[d] \in {"content", "extract", "hung"}

\* Mutant of WorkerFree: the pool starts a thread for every task.
WorkerFree_Unbounded == TRUE

\* ThreadPoolExecutor(max_workers=max_workers): a task starts when fewer
\* than max_workers threads are busy.
WorkerFree == Cardinality({e \in Docs : Running(e)}) < options.max_workers

\* The executor's work queue is FIFO: a free worker takes the oldest pending task.
FirstPending(d) ==
    \E i \in 1..Len(selected_files) :
        /\ selected_files[i] = d
        /\ \A j \in 1..(i - 1) : task[selected_files[j]] # "pending"

\* Mutant of Collected: a result that carries an error is not kept.
Collected_DropErrors(rs, r) == IF r.error # "" THEN rs ELSE Append(rs, r)

\* results.append(result) of the as_completed loop.
Collected(rs, r) == Append(rs, r)

\* main: schema = configure_schema()
ConfigureSchema ==
    /\ bpc = "sidebar"
    /\ schema' = load_yaml_schema(schema_yaml)
    /\ bpc' = "ready"
    /\ UNCHANGED <<schema_yaml, files, options, selected_files, task, result,
                   fate, results, errors, notBatchVars>>

\* process_all_cvs up to the submission of the tasks: the schema check, the
\* selection and its limit, the client and the Drive service, executor.submit.
ProcessAllCvs ==
    /\ bpc = "ready"
    /\ IF ~SchemaUsable(schema)
       THEN /\ bpc' = "returned"
            /\ UNCHANGED <<selected_files, task>>
       ELSE LET sel == SelectedFiles(files, options.max_files)
                has_drive_files ==
                    \E i \in 1..Len(sel) : files[sel[i]].source = "drive"
            IN  \E client_ok \in BOOLEAN, drive_ok \in BOOLEAN :
                    /\ selected_files' = sel
                    /\ IF ~client_ok \/ (has_drive_files /\ ~drive_ok)
                       THEN /\ bpc' = "returned"
                            /\ UNCHANGED task
                       ELSE /\ bpc' = "pool"
                            /\ task' = [d \in Docs |->
                                   IF InSeq(sel, d) THEN "pending" ELSE task[d]]
    /\ UNCHANGED <<schema_yaml, schema, files, options, result, fate, results,
                   errors, notBatchVars>>

\* A worker of the pool takes the task and enters process_single_cv.
StartTask(d) ==
    /\ bpc = "pool"
    /\ task[d] = "pending"
    /\ FirstPending(d)
    /\ WorkerFree
    /\ task' = [task EXCEPT ![d] = "content"]
    /\ result' = [result EXCEPT ![ResultOf(d)] = NewResult(d)]
    /\ UNCHANGED <<schema_yaml, schema, files, options, bpc, selected_files,
                   fate, results, errors, notBatchVars>>

TextOutcomes(d) ==
    {"ok", "parse_error", "empty_text"}
        \cup (IF files[d].source = "drive" THEN {"download_error"} ELSE {})

\* process_single_cv: obtain the content (download_file and compute_hash for a
\* Drive file), parse_file, normalize_text, the empty-text check.
ObtainText(d) ==
    /\ task[d] = "content"
    /\ \E o \in TextOutcomes(d) :
        LET r == ResultOf(d)
            hashed == files[d].source = "drive" /\ o # "download_error"
        IN  /\ fate' = [fate EXCEPT ![d].text = o]
            /\ IF o = "ok"
               THEN /\ result' = [result EXCEPT ![r].sha1 = hashed]
                    /\ task' = [task EXCEPT ![d] = "extract"]
               ELSE /\ result' = [result EXCEPT ![r].sha1 = hashed,
                                                ![r].error = ErrorString(o)]
                    /\ task' = [task EXCEPT ![d] = "finished"]
    /\ UNCHANGED <<schema_yaml, schema, files, options, bpc, selected_files,
                   results, errors, notBatchVars>>

\* process_single_cv: llm_client.extract_profile, result.update(extracted_data),
\* calculate_derived_fields, the except clause, return result.
ExtractProfile(d) ==
    /\ task[d] = "extract"
    /\ \E o \in {"accepted", "rejected", "provider_error"},
          dv \in {"ok", "derived_error", "none"} :
        LET r == ResultOf(d)
        IN  /\ (o = "accepted") <=> (dv # "none")
            /\ fate' = [fate EXCEPT ![d].llm = o, ![d].derived = dv]
            /\ result' =
                 IF o # "accepted"
                 THEN [result EXCEPT ![r].error = ErrorString(o)]
                 ELSE IF dv = "ok"
                 THEN [result EXCEPT ![r].extracted = TRUE,
                                     ![r].preaprobado = TRUE]
                 ELSE [result EXCEPT ![r].extracted = TRUE,
                                     ![r].error = ErrorString(dv)]
            /\ task' = [task EXCEPT ![d] = "finished"]
    /\ UNCHANGED <<schema_yaml, schema, files, options, bpc, selected_files,
                   results, errors, notBatchVars>>

\* process_single_cv: the call of the model inside extract_profile does not
\* return.  Neither client passes a timeout to the call, and neither
\* as_completed nor future.result() is given one: the thread stays in the
\* call.
ModelCallHangs(d) ==
    /\ task[d] = "extract"
    /\ fate' = [fate EXCEPT ![d].llm = "hang"]
    /\ task' = [task EXCEPT ![d] = "hung"]
    /\ UNCHANGED <<schema_yaml, schema, files, options, bpc, selected_files,
                   result, results, errors, notBatchVars>>

\* process_all_cvs: one round of "for i, future in enumerate(as_completed(...))".
Collect(d) ==
    /\ bpc = "pool"
    /\ task[d] = "finished"
    /\ LET r == result[ResultOf(d)]
       IN  /\ results' = Collected(results, r)
           /\ errors' = IF r.error # "" THEN Append(errors, d) ELSE errors
    /\ task' = [task EXCEPT ![d] = "collected"]
    /\ UNCHANGED <<schema_yaml, schema, files, options, bpc, selected_files,
                   result, fate, notBatchVars>>

\* process_all_cvs: every future was yielded; the executor shuts down and the
\* results go to the session.
FinishBatch ==
    /\ bpc = "pool"
    /\ \A i \in 1..Len(selected_files) : task[selected_files[i]] = "collected"
    /\ bpc' = "done"
    /\ UNCHANGED <<schema_yaml, schema, files, options, selected_files, task,
                   result, fate, results, errors, notBatchVars>>

BatchIdle ==
    /\ schema_yaml = "valid"
    /\ schema = "unset"
    /\ files = [d \in Docs |-> [selected |-> FALSE, source |-> "local"]]
    /\ options = [max_files |-> 1, max_workers |-> 1]
    /\ bpc = "idle"
    /\ selected_files = << >>
    /\ task = [d \in Docs |-> "none"]
    /\ result = [d \in Docs |-> NoResult]
    /\ fate = [d \in Docs |-> NoFate]
    /\ results = << >>
    /\ errors = << >>

(***************************************************************************)
(* Response validator: schema/validator.py                                 *)
(*                                                                         *)
(* A JSON value is a record [t, v]: t its type, v its content.  A string   *)
(* is a sequence of characters; a float is kept in halves (v = 3 is 1.5),  *)
(* which is enough to tell integral floats from the others; a dict is a    *)
(* function from its keys.                                                 *)
(***************************************************************************)

NoneV == [t |-> "null", v |-> 0]
IntV(n) == [t |-> "int", v |-> n]
FloatV(h) == [t |-> "float", v |-> h]
BoolV(b) == [t |-> "bool", v |-> b]
StrV(s) == [t |-> "str", v |-> s]
ListV(s) == [t |-> "list", v |-> s]

Digits == {"0", "1", "2", "3", "4", "5", "6", "7", "8", "9"}

DigitVal(c) ==
    CASE c = "0" -> 0 [] c = "1" -> 1 [] c = "2" -> 2 [] c = "3" -> 3
      [] c = "4" -> 4 [] c = "5" -> 5 [] c = "6" -> 6 [] c = "7" -> 7
      [] c = "8" -> 8 [] c = "9" -> 9

IsSpace(c) == c \in {" ", "\n"}

\* str.lower() on the letters the inputs use.
LowerChar(c) ==
    CASE c = "A" -> "a" [] c = "E" -> "e" [] c = "F" -> "f" [] c = "I" -> "i"
      [] c = "L" -> "l" [] c = "N" -> "n" [] c = "O" -> "o" [] c = "R" -> "r"
      [] c = "S" -> "s" [] c = "T" -> "t" [] c = "U" -> "u" [] c = "Y" -> "y"
      [] OTHER -> c

\* Mutant of Lower: the letters are left as they are.
Lower_Identity(s) == s

Lower(s) == [i \in 1..Len(s) |-> LowerChar(s[i])]

\* str.strip()
RECURSIVE LStrip(_)
LStrip(s) == IF s # << >> /\ IsSpace(Head(s)) THEN LStrip(Tail(s)) ELSE s

RECURSIVE RStrip(_)
RStrip(s) ==
    IF s # << >> /\ IsSpace(s[Len(s)]) THEN RStrip(SubSeq(s, 1, Len(s) - 1)) ELSE s

Strip(s) == RStrip(LStrip(s))

AllDigits(s) == s # << >> /\ \A i \in 1..Len(s) : s[i] \in Digits

\* int() of a run of digits.
RECURSIVE IntOf(_)
IntOf(s) ==
    IF s = << >> THEN 0 ELSE 10 * IntOf(SubSeq(s, 1, Len(s) - 1)) + DigitVal(s[Len(s)])

\* Mutant of FirstDigitRun: only a string made of digits alone has a run.
FirstDigitRun_WholeString(s) == IF AllDigits(s) THEN s ELSE << >>

\* re.search(r"\d+", value): the first (leftmost, longest) run of digits, or
\* << >> when the string has no digit.
RECURSIVE DigitPrefix(_)
DigitPrefix(s) ==
    IF s # << >> /\ Head(s) \in Digits THEN <<Head(s)>> \o DigitPrefix(Tail(s)) ELSE << >>

RECURSIVE FirstDigitRun(_)
FirstDigitRun(s) ==
    IF s = << >> THEN << >>
    ELSE IF Head(s) \in Digits THEN DigitPrefix(s)
    ELSE FirstDigitRun(Tail(s))

\* float(value) on the strings the inputs use (digits, letters, "/" and
\* spaces: no sign, point, exponent or underscore, and no "nan"/"inf"): it
\* succeeds on a run of digits with spaces around it, and raises ValueError,
\* shown as NoneV, on anything else.
FloatOfStr(s) == IF AllDigits(Strip(s)) THEN FloatV(2 * IntOf(Strip(s))) ELSE NoneV

\* The tokens of the two lists; "i_acute" stands for the accented i of "si".
TrueTokens == {<<"t","r","u","e">>, <<"y","e","s">>, <<"s","i_acute">>, <<"s","i">>,
               <<"1">>, <<"v","e","r","d","a","d","e","r","o">>}
FalseTokens == {<<"f","a","l","s","e">>, <<"n","o">>, <<"0">>,
                <<"f","a","l","s","o">>}

\* _preprocess_data: the conversion of one value of a declared key.
Coerce(expected_type, value) ==
    IF value.t # "str" THEN value
    ELSE CASE expected_type = "integer" ->
                IF FirstDigitRun(value.v) # << >>
                THEN IntV(IntOf(FirstDigitRun(value.v)))
                ELSE NoneV
           [] expected_type = "float" -> FloatOfStr(value.v)
           [] expected_type = "boolean" ->
                LET value_lower == Strip(Lower(value.v))
                IN  IF value_lower \in TrueTokens THEN BoolV(TRUE)
                    ELSE IF value_lower \in FalseTokens THEN BoolV(FALSE)
                    ELSE NoneV
           [] OTHER -> value

SchemaNames(sch) == {sch[i].name : i \in 1..Len(sch)}

\* type_map = {var["name"]: var["type"] for var in schema["variables"]}
TypeOf(sch, key) ==
    LET i == CHOOSE i \in 1..Len(sch) :
                 /\ sch[i].name = key
                 /\ \A j \in (i + 1)..Len(sch) : sch[j].name # key
    IN  sch[i].type

\* _preprocess_data(data, schema)
preprocess_data(data, sch) ==
    [key \in DOMAIN data |->
        IF key \notin SchemaNames(sch) \/ data[key].t = "null"
        THEN data[key]
        ELSE Coerce(TypeOf(sch, key), data[key])]

\* _get_pydantic_field(var): the Python type of the field and its Field(...)
\* constraints.  Only an integer gets ge / le from min / max.
get_pydantic_field(var) ==
    [python_type |->
        CASE var.type = "string" -> "str"
          [] var.type = "integer" -> "int"
          [] var.type = "float" -> "float"
          [] var.type = "boolean" -> "bool"
          [] var.type = "categorical" -> "Literal"
          [] var.type = "list[string]" -> "List[str]",
     has_ge |-> var.type = "integer" /\ var.has_min,
     ge |-> var.min,
     has_le |-> var.type = "integer" /\ var.has_max,
     le |-> var.max,
     allowed |-> IF var.type = "categorical" THEN var.allowed_values ELSE {}]

\* Mutant of ModelField: "required" is not read, every field is optional.
ModelField_AllOptional(var) ==
    [name |-> var.name, required |-> FALSE, field |-> get_pydantic_field(var)]

\* create_pydantic_model: one field of the model; a field that is not
\* required becomes Optional[...] with default None.
ModelField(var) ==
    [name |-> var.name, required |-> var.required, field |-> get_pydantic_field(var)]

\* create_pydantic_model(schema): the fields of the dynamic model, in schema
\* order.  Its config sets str_strip_whitespace and leaves "extra" at the
\* pydantic default, "ignore".
create_pydantic_model(sch) == [i \in 1..Len(sch) |-> ModelField(sch[i])]

Ok(val) == [ok |-> TRUE, val |-> val, msg |-> ""]
Err(msg) == [ok |-> FALSE, val |-> NoneV, msg |-> msg]

\* pydantic (lax mode) on a non-null value for an int field.
CheckInt(f, value) ==
    LET conv ==
          CASE value.t = "int" -> Ok(value)
            [] value.t = "bool" -> Ok(IntV(IF value.v THEN 1 ELSE 0))
            [] value.t = "float" ->
                 IF value.v % 2 = 0 THEN Ok(IntV(value.v \div 2))
                 ELSE Err("Input should be a valid integer, got a number with a fractional part")
            [] value.t = "str" ->
                 IF AllDigits(Strip(value.v)) THEN Ok(IntV(IntOf(Strip(value.v))))
                 ELSE Err("Input should be a valid integer, unable to parse string as an integer")
            [] OTHER -> Err("Input should be a valid integer")
    IN  IF ~conv.ok THEN conv
        ELSE IF f.has_ge /\ conv.val.v < f.ge
             THEN Err("Input should be greater than or equal to min")
        ELSE IF f.has_le /\ conv.val.v > f.le
             THEN Err("Input should be less than or equal to max")
        ELSE conv

\* pydantic (lax mode) on a non-null value for a float field.
CheckFloat(value) ==
    CASE value.t = "float" -> Ok(value)
      [] value.t = "int" -> Ok(FloatV(2 * value.v))
      [] value.t = "bool" -> Ok(FloatV(IF value.v THEN 2 ELSE 0))
      [] value.t = "str" ->
           IF FloatOfStr(value.v).t # "null" THEN Ok(FloatOfStr(value.v))
           ELSE Err("Input should be a valid number, unable to parse string as a number")
      [] OTHER -> Err("Input should be a valid number")

\* pydantic (lax mode) on a non-null value for a bool field.  _preprocess_data
\* leaves no string in a boolean field.
CheckBool(value) ==
    CASE value.t = "bool" -> Ok(value)
      [] value.t = "int" /\ value.v \in {0, 1} -> Ok(BoolV(value.v = 1))
      [] value.t = "float" /\ value.v \in {0, 2} -> Ok(BoolV(value.v = 2))
      [] OTHER -> Err("Input should be a valid boolean")

\* Mutant of CheckStr: the string is kept as it came.
CheckStr_NoStrip(value) ==
    IF value.t = "str" THEN Ok(value)
    ELSE Err("Input should be a valid string")

\* str with str_strip_whitespace=True
CheckStr(value) ==
    IF value.t = "str" THEN Ok(StrV(Strip(value.v)))
    ELSE Err("Input should be a valid string")

\* Mutant of CheckLiteral: the comparison ignores letter case.
CheckLiteral_IgnoreCase(f, value) ==
    IF value.t = "str" /\ Lower(value.v) \in {Lower(a) : a \in f.allowed}
    THEN Ok(value)
    ELSE Err("Input should be one of the allowed values")

\* Literal[allowed]: the value must be one of the literals, as it is.
CheckLiteral(f, value) ==
    IF value.t = "str" /\ value.v \in f.allowed THEN Ok(value)
    ELSE Err("Input should be one of the allowed values")

\* List[str]
CheckListStr(value) ==
    IF value.t # "list" THEN Err("Input should be a valid list")
    ELSE IF \E i \in 1..Len(value.v) : value.v[i].t # "str"
         THEN Err("Input should be a valid string")
    ELSE Ok(ListV([i \in 1..Len(value.v) |-> StrV(Strip(value.v[i].v))]))

CheckType(f, value) ==
    CASE f.python_type = "str" -> CheckStr(value)
      [] f.python_type = "int" -> CheckInt(f, value)
      [] f.python_type = "float" -> CheckFloat(value)
      [] f.python_type = "bool" -> CheckBool(value)
      [] f.python_type = "Literal" -> CheckLiteral(f, value)
      [] f.python_type = "List[str]" -> CheckListStr(value)

\* model(**data) for one field: a missing key takes the default None when
\* the field is optional; None is accepted by Optional[...] only.
ValidateField(mf, data) ==
    IF mf.name \notin DOMAIN data
    THEN IF mf.required THEN Err("Field required") ELSE Ok(NoneV)
    ELSE IF data[mf.name].t = "null"
    THEN IF mf.required
         THEN Err("Input should be a valid " \o mf.field.python_type)
         ELSE Ok(NoneV)
    ELSE CheckType(mf.field, data[mf.name])

\* error.errors(): one entry per failing field, in field order.
RECURSIVE ModelErrors(_, _, _)
ModelErrors(model, data, i) ==
    IF i > Len(model) THEN << >>
    ELSE LET r == ValidateField(model[i], data)
         IN  (IF r.ok THEN << >> ELSE <<[loc |-> model[i].name, msg |-> r.msg]>>)
                 \o ModelErrors(model, data, i + 1)

\* Mutant of ModelDump: the record is returned with the keys it came with.
ModelDump_InputKeys(model, data) == data

\* validated.model_dump(): the declared fields with their validated values.
ModelDump(model, data) ==
    [name \in {model[i].name : i \in 1..Len(model)} |->
        LET i == CHOOSE i \in 1..Len(model) : model[i].name = name
        IN  ValidateField(model[i], data).val]

\* Mutant of format_pydantic_errors: the location of the error is left out.
format_pydantic_errors_NoLoc(errs) ==
    <<"Errores de validacion:">> \o
    [k \in 1..(2 * Len(errs)) |->
        IF k % 2 = 1 THEN "  * " ELSE errs[k \div 2].msg]

\* _format_pydantic_errors(error): the message, as the sequence of its
\* parts: the header, then for each error its bullet, loc, ": " and msg.
format_pydantic_errors(errs) ==
    <<"Errores de validacion:">> \o
    [k \in 1..(4 * Len(errs)) |->
        LET e == errs[(k + 3) \div 4]
        IN  CASE k % 4 = 1 -> "  * "
              [] k % 4 = 2 -> e.loc
              [] k % 4 = 3 -> ": "
              [] k % 4 = 0 -> e.msg]

\* The second and third components of the returned tuple: None, or a value.
NoData == {}
Some(x) == {x}
NoError == << >>

\* _validate_with_pydantic(data, schema)
validate_with_pydantic(data, sch) ==
    LET processed == preprocess_data(data, sch)
        model == create_pydantic_model(sch)
        errs == ModelErrors(model, processed, 1)
    IN  IF errs = << >>
        THEN [is_valid |-> TRUE, validated |-> Some(ModelDump(model, processed)),
              error |-> NoError]
        ELSE [is_valid |-> FALSE, validated |-> NoData,
              error |-> format_pydantic_errors(errs)]

\* validate_extraction(data, schema), use_pydantic left at True
validate_extraction(data, sch) == validate_with_pydantic(data, sch)

\* The call of validate_extraction by the extraction client.
ValidateExtraction ==
    /\ vpc = "input"
    /\ v_out' = validate_extraction(v_data, v_schema)
    /\ vpc' = "returned"
    /\ UNCHANGED <<v_schema, v_data, notValidatorVars>>

ValidatorIdle ==
    /\ v_schema = << >>
    /\ v_data = << >>
    /\ v_out = [is_valid |-> FALSE, validated |-> NoData, error |-> NoError]
    /\ vpc = "idle"

(***************************************************************************)
(* Schema loader: schema/yaml_loader.py                                    *)
(*                                                                         *)
(* The YAML document is taken after yaml.safe_load: what the top level is, *)
(* and for each entry of "variables" which keys it has and of what type.   *)
(***************************************************************************)

valid_types ==
    {"string", "integer", "float", "boolean", "categorical", "list[string]",
     "list[integer]", "list[object]", "object"}

\* No error, and the ValueError load_yaml_schema raises: the rule broken and
\* the index and name the message gives (index -1 and name "" when the
\* message gives none).
NoValueError == [rule |-> "none", index |-> -1, name |-> ""]
ValueError(rule, index, name) == [rule |-> rule, index |-> index, name |-> name]

\* Mutant of validate_variable: names are not compared with the names seen.
validate_variable_NoDuplicateCheck(var, index, seen_names) ==
    IF ~var.is_dict THEN ValueError("debe ser un diccionario", index, "")
    ELSE IF ~var.has_name THEN ValueError("debe tener un campo 'name'", index, "")
    ELSE IF ~var.has_type
         THEN ValueError("debe tener un campo 'type'", index, var.name)
    ELSE NoValueError

\* _validate_variable(var, index, seen_names): the error it raises, or none.
validate_variable(var, index, seen_names) ==
    IF ~var.is_dict THEN ValueError("debe ser un diccionario", index, "")
    ELSE IF ~var.has_name THEN ValueError("debe tener un campo 'name'", index, "")
    ELSE IF ~var.has_type
         THEN ValueError("debe tener un campo 'type'", index, var.name)
    ELSE IF var.name \in seen_names
         THEN ValueError("Nombre de variable duplicado", -1, var.name)
    ELSE IF var.type \notin valid_types
         THEN ValueError("Tipo invalido", -1, var.name)
    ELSE IF var.type = "categorical" /\ ~var.has_allowed_values
         THEN ValueError("debe tener 'allowed_values'", -1, var.name)
    ELSE IF var.type = "categorical" /\ ~var.allowed_values_is_list
         THEN ValueError("'allowed_values' debe ser una lista", -1, var.name)
    ELSE IF var.type = "integer" /\ var.has_min /\ ~var.min_is_number
         THEN ValueError("'min' debe ser un numero", -1, var.name)
    ELSE IF var.type = "integer" /\ var.has_max /\ ~var.max_is_number
         THEN ValueError("'max' debe ser un numero", -1, var.name)
    ELSE IF var.type = "list[object]" /\ ~var.has_properties
         THEN ValueError("debe tener 'properties'", -1, var.name)
    ELSE IF var.type = "list[object]" /\ ~var.properties_is_dict
         THEN ValueError("'properties' debe ser un diccionario", -1, var.name)
    ELSE IF var.has_required /\ ~var.required_is_bool
         THEN ValueError("'required' debe ser booleano", -1, var.name)
    ELSE NoValueError

\* The group of checks a rule belongs to: 1 the shape of the top level, 2 the
\* required keys of an entry, 3 the uniqueness of names, 4 the constraints of
\* the entry's kind.
RuleGroup(rule) ==
    CASE rule \in {"debe ser un diccionario", "debe tener un campo 'name'",
                   "debe tener un campo 'type'"} -> 2
      [] rule = "Nombre de variable duplicado" -> 3
      [] rule \in {"Tipo invalido", "debe tener 'allowed_values'",
                   "'allowed_values' debe ser una lista", "'min' debe ser un numero",
                   "'max' debe ser un numero", "debe tener 'properties'",
                   "'properties' debe ser un diccionario",
                   "'required' debe ser booleano"} -> 4
      [] OTHER -> 1

\* Mutant of the loop: every entry is checked against one group of rules
\* before any entry is checked against the next group.
ValidateVariables_GroupByGroup(variables, i, seen_names) ==
    LET errs == [k \in i..Len(variables) |->
                    validate_variable(variables[k], k - 1,
                        seen_names \cup {variables[j].name : j \in i..(k - 1)})]
        bad == {k \in i..Len(variables) : errs[k].rule # "none"}
    IN  IF bad = {} THEN NoValueError
        ELSE LET first == CHOOSE k \in bad :
                    \A other \in bad :
                        \/ RuleGroup(errs[k].rule) < RuleGroup(errs[other].rule)
                        \/ /\ RuleGroup(errs[k].rule) = RuleGroup(errs[other].rule)
                           /\ k <= other
             IN  errs[first]

\* The loop of load_yaml_schema over schema["variables"], from the entry at
\* position i (index i - 1) on, seen_names being the names seen before it:
\* the first error raised, or none.
RECURSIVE ValidateVariables(_, _, _)
ValidateVariables(variables, i, seen_names) ==
    IF i > Len(variables) THEN NoValueError
    ELSE LET e == validate_variable(variables[i], i - 1, seen_names)
         IN  IF e # NoValueError THEN e
             ELSE ValidateVariables(variables, i + 1,
                                    seen_names \cup {variables[i].name})

NoSchema == {}

\* load_yaml_schema(yaml_content), from the parsed document on: the schema
\* it returns, or the error it raises.
LoadYamlSchemaResult(doc) ==
    LET e == IF ~doc.parses THEN ValueError("Error parseando YAML", -1, "")
             ELSE IF ~doc.is_dict
                  THEN ValueError("El esquema debe ser un diccionario", -1, "")
             ELSE IF ~doc.has_version
                  THEN ValueError("debe incluir un campo 'version'", -1, "")
             ELSE IF ~doc.has_variables
                  THEN ValueError("debe incluir un campo 'variables'", -1, "")
             ELSE IF ~doc.variables_is_list
                  THEN ValueError("'variables' debe ser una lista", -1, "")
             ELSE ValidateVariables(doc.variables, 1, {})
    IN  IF e = NoValueError
        THEN [raised |-> FALSE, error |-> e, schema |-> {doc.variables}]
        ELSE [raised |-> TRUE, error |-> e, schema |-> NoSchema]

\* The call of load_yaml_schema.
LoadYamlSchema ==
    /\ lpc = "input"
    /\ l_out' = LoadYamlSchemaResult(l_source)
    /\ lpc' = IF LoadYamlSchemaResult(l_source).raised THEN "raised" ELSE "returned"
    /\ UNCHANGED <<l_source, notLoaderVars>>

\* One entry of "variables" with a name and a type, and no other key.
Entry(name, type) ==
    [is_dict |-> TRUE, has_name |-> TRUE, name |-> name,
     has_type |-> TRUE, type |-> type,
     has_allowed_values |-> FALSE, allowed_values_is_list |-> FALSE,
     allowed_values |-> {},
     has_min |-> FALSE, min_is_number |-> FALSE, min |-> 0,
     has_max |-> FALSE, max_is_number |-> FALSE, max |-> 0,
     has_properties |-> FALSE, properties_is_dict |-> FALSE, properties |-> {},
     has_required |-> FALSE, required_is_bool |-> FALSE]

Bounded(e, min, max) ==
    [e EXCEPT !.has_min = TRUE, !.min_is_number = TRUE, !.min = min,
              !.has_max = TRUE, !.max_is_number = TRUE, !.max = max]

\* The entries a document is made of: sound ones and one for each rule.
Entries ==
    <<Entry("a", "string"),
      [Entry("b", "string") EXCEPT !.has_required = TRUE, !.required_is_bool = TRUE],
      Bounded(Entry("b", "integer"), 2, 20),
      Bounded(Entry("a", "integer"), 20, 2),
      Bounded(Entry("a", "float"), 20, 2),
      [Entry("a", "integer") EXCEPT !.has_min = TRUE],
      [Entry("a", "integer") EXCEPT !.has_max = TRUE],
      [Entry("a", "string") EXCEPT !.has_name = FALSE, !.name = ""],
      [Entry("b", "string") EXCEPT !.has_type = FALSE, !.type = ""],
      [Entry("a", "string") EXCEPT !.is_dict = FALSE],
      Entry("b", "str"),
      [Entry("c", "categorical") EXCEPT !.has_allowed_values = TRUE,
          !.allowed_values_is_list = TRUE, !.allowed_values = {"x", "y"}],
      [Entry("c", "categorical") EXCEPT !.has_allowed_values = TRUE,
          !.allowed_values_is_list = TRUE],
      [Entry("c", "categorical") EXCEPT !.has_allowed_values = TRUE],
      Entry("a", "categorical"),
      [Entry("d", "list[object]") EXCEPT !.has_properties = TRUE,
          !.properties_is_dict = TRUE, !.properties = {"k"}],
      [Entry("d", "list[object]") EXCEPT !.has_properties = TRUE,
          !.properties_is_dict = TRUE],
      [Entry("d", "list[object]") EXCEPT !.has_properties = TRUE],
      Entry("a", "list[object]"),
      [Entry("b", "boolean") EXCEPT !.has_required = TRUE]>>

MaxVariables == 2

Document(variables) ==
    [parses |-> TRUE, is_dict |-> TRUE, has_version |-> TRUE,
     has_variables |-> TRUE, variables_is_list |-> TRUE, variables |-> variables]

\* The documents that fail before the loop.
BadDocuments ==
    {[Document(<< >>) EXCEPT !.parses = FALSE],
     [Document(<< >>) EXCEPT !.is_dict = FALSE],
     [Document(<< >>) EXCEPT !.has_version = FALSE],
     [Document(<< >>) EXCEPT !.has_variables = FALSE],
     [Document(<< >>) EXCEPT !.variables_is_list = FALSE]}

LoaderIdle ==
    /\ l_source = Document(<< >>)
    /\ l_out = [raised |-> FALSE, error |-> NoValueError, schema |-> NoSchema]
    /\ lpc = "idle"

(***************************************************************************)
(* Derived fields: calculate_derived_fields of app.py                      *)
(*                                                                         *)
(* The values of a record are the JSON values of the validator, and two    *)
(* more: a dict and the float NaN.                                         *)
(***************************************************************************)

DictV == [t |-> "dict", v |-> 0]
NaNV == [t |-> "nan", v |-> 0]

\* bool(pd.isna(value)): "True", "False", or "ValueError" when pd.isna
\* returns an array that has no truth value.  pd.isna of a list is the array
\* of its elements' answers; an array of one element has the truth value of
\* that element, one of two or more has none, and the empty one is false or
\* has none, depending on the numpy installed (empty_raises).
isna(value, empty_raises) ==
    CASE value.t = "nan" -> "True"
      [] value.t = "null" -> "True"
      [] value.t = "list" ->
           IF Len(value.v) = 0
           THEN IF empty_raises THEN "ValueError" ELSE "False"
           ELSE IF Len(value.v) = 1
           THEN IF value.v[1].t \in {"null", "nan"} THEN "True" ELSE "False"
           ELSE "ValueError"
      [] OTHER -> "False"

ToBoolTokens == {<<"t","r","u","e">>, <<"y","e","s">>, <<"s","i_acute">>,
                 <<"s","i">>, <<"1">>}

\* Mutant of to_bool: a boolean is not returned as it is.
to_bool_NoBooleans(value, empty_raises) ==
    IF value.t = "bool" THEN "False"
    ELSE IF value.t = "str" /\ Lower(value.v) \in ToBoolTokens THEN "True"
    ELSE "False"

\* to_bool(value): "True", "False", or "ValueError" when it raises.
to_bool(value, empty_raises) ==
    IF value.t = "null" \/ (value.t = "str" /\ value.v = << >>) THEN "False"
    ELSE IF isna(value, empty_raises) # "False"
         THEN IF isna(value, empty_raises) = "True" THEN "False" ELSE "ValueError"
    ELSE CASE value.t = "bool" -> IF value.v THEN "True" ELSE "False"
           [] value.t = "str" ->
                IF Lower(value.v) \in ToBoolTokens THEN "True" ELSE "False"
           [] value.t \in {"int", "float"} -> IF value.v # 0 THEN "True" ELSE "False"
           [] OTHER -> "False"

possible_exp_fields ==
    <<"experiencia_electricista_confirmada",
      "experiencia_electromecanico_confirmada",
      "experiencia_mecanico_industrial_confirmada",
      "experiencia_pañol_depositos_confirmada",
      "experiencia_confirmada">>

\* result.get(key, False)
Get(rec, key) == IF key \in DOMAIN rec THEN rec[key] ELSE BoolV(FALSE)

\* Mutant of the loop: any candidate field that is true decides.
experiencia_confirmada_AnyCandidate(rec, empty_raises) ==
    LET answers == {to_bool(rec[possible_exp_fields[i]], empty_raises) :
                      i \in {j \in 1..Len(possible_exp_fields) :
                                possible_exp_fields[j] \in DOMAIN rec}}
    IN  IF "ValueError" \in answers THEN "ValueError"
        ELSE IF "True" \in answers THEN "True"
        ELSE "False"

\* The loop over possible_exp_fields: the first field the record has decides.
experiencia_confirmada(rec, empty_raises) ==
    IF \E i \in 1..Len(possible_exp_fields) : possible_exp_fields[i] \in DOMAIN rec
    THEN LET i == CHOOSE i \in 1..Len(possible_exp_fields) :
                    /\ possible_exp_fields[i] \in DOMAIN rec
                    /\ \A j \in 1..(i - 1) : possible_exp_fields[j] \notin DOMAIN rec
         IN  to_bool(rec[possible_exp_fields[i]], empty_raises)
    ELSE "False"

\* calculate_derived_fields(result): the record with preaprobado set, or the
\* exception a to_bool call raised.
calculate_derived_fields(rec, empty_raises) ==
    LET edad_en_rango == to_bool(Get(rec, "edad_en_rango"), empty_raises)
        experiencia == experiencia_confirmada(rec, empty_raises)
        hay_foto == to_bool(Get(rec, "hay_foto_en_cv"), empty_raises)
        secundaria_tecnica == to_bool(Get(rec, "secundaria_tecnica"), empty_raises)
        signals == {edad_en_rango, experiencia, hay_foto, secundaria_tecnica}
    IN  IF "ValueError" \in signals
        THEN [raised |-> TRUE, result |-> {}]
        ELSE [raised |-> FALSE,
              result |-> {[key \in DOMAIN rec \cup {"preaprobado"} |->
                              IF key = "preaprobado"
                              THEN BoolV(signals = {"True"})
                              ELSE rec[key]]}]

\* The call of calculate_derived_fields, on one of the numpy builds.
CalculateDerivedFields ==
    /\ dpc = "input"
    /\ \E empty_raises \in BOOLEAN :
          /\ d_out' = calculate_derived_fields(d_result, empty_raises)
          /\ dpc' = IF calculate_derived_fields(d_result, empty_raises).raised
                    THEN "raised" ELSE "returned"
    /\ UNCHANGED <<d_result, notDerivedVars>>

MaxListLen == 2

\* The fields a record of the run can carry as signals.
SignalFields ==
    <<"edad_en_rango", "experiencia_electricista_confirmada",
      "experiencia_confirmada", "hay_foto_en_cv", "secundaria_tecnica">>

\* The values of the probed field.
SignalValues ==
    <<NoneV, BoolV(TRUE), BoolV(FALSE), IntV(0), IntV(1), IntV(2),
      FloatV(0), FloatV(2), FloatV(1), NaNV, DictV,
      StrV(<< >>), StrV(<<"s","i">>), StrV(<<"S","I_acute">>), StrV(<<"S","I">>),
      StrV(<<"1">>), StrV(<<"n","o">>), StrV(<<"x">>), StrV(<<" ","s","i">>),
      ListV(<<NoneV>>)>>
      \o [n \in 1..(MaxListLen + 1) |-> ListV([k \in 1..(n - 1) |-> StrV(<<"a">>)])]

\* The values of the other fields: 0 stands for a field the record lacks.
PlainValues == <<BoolV(TRUE), BoolV(FALSE), StrV(<<"s","i">>)>>

DerivedIdle ==
    /\ d_result = << >>
    /\ d_out = [raised |-> FALSE, result |-> {}]
    /\ dpc = "idle"

(***************************************************************************)
(* The requests of one extract_profile call: what the first call and the   *)
(* correction call send to the model (llm_client/openai_client.py,         *)
(* llm_client/litellm_client.py, llm_client/prompt_templates.py,           *)
(* schema/validator.py).  A prompt is the sequence of its parts; a         *)
(* response is the sequence of its characters; a temperature is a number   *)
(* of tenths.                                                              *)
(***************************************************************************)

\* The steps of the temperature slider: 0.0 to 1.0 in steps of 0.1.
MaxTemperature == 10
Temperatures == 0..MaxTemperature

\* temperature=0.1 of _retry_with_correction.
CorrectionTemperature == 1

\* original_response[:500] of generate_correction_prompt.
ExcerptLen == 500

\* The longest response the model gives.
MaxResponseLen == 501

Texts == {"cv_a", "cv_b"}

\* What is wrong with a response the model gave.
Faults == {"malformed", "not_object", "invalid"}

\* A response of n characters; the characters differ along the text.
ResponseText(n) == [i \in 1..n |-> i % 3]

ResponseLens == {0, ExcerptLen, MaxResponseLen}

Responses ==
    [chars : {ResponseText(n) : n \in ResponseLens},
     fault : Faults \cup {"none", "provider_error"}]

NoResponse == [chars |-> << >>, fault |-> "none"]

\* The error message parse_json_safely or validate_extraction gives for a
\* faulty response.
ErrorMessage(r) ==
    CASE r.fault = "malformed" -> "Error parseando JSON: ..."
      [] r.fault = "not_object" -> "El JSON parseado no es un objeto"
      [] r.fault = "invalid" -> "Errores de validacion: ..."

\* s[:n]
Slice_Whole(s, n) == s

Slice(s, n) == SubSeq(s, 1, IF Len(s) < n THEN Len(s) ELSE n)

\* A part of a prompt: a literal line of the template, or a line made from
\* an argument.
Lit(line) == <<line>>
Arg(what, value) == <<what, value>>

\* PromptConfig.build_full_prompt: the user prompt is made of the schema, the
\* domain configuration's instructions and the document text.
user_prompt(text) ==
    << Lit("header(schema)"), Lit("format_schema_for_prompt(schema)"),
       Lit("field_definitions(config)"), Lit("score_instructions(config)"),
       Lit("Texto del CV a analizar:"), Arg("cv_text[:10000]", text),
       Lit("Responde SOLO con el JSON, sin explicaciones adicionales.") >>

generate_correction_prompt(original_response, validation_error) ==
    << Lit("Tu respuesta anterior no pudo validarse correctamente."),
       Lit("Error encontrado:"), Arg("validation_error", validation_error),
       Lit("Tu respuesta original fue:"),
       Arg("original_response[:500]", Slice(original_response, ExcerptLen)),
       Lit("..."),
       Lit("Por favor, corrige el JSON para que cumpla exactamente con el esquema requerido.") >>

\* full_user_prompt of _retry_with_correction.
full_user_prompt(text, correction_prompt) ==
    user_prompt(text)
    \o << Lit("---"),
          Lit("IMPORTANTE: Tu respuesta anterior tuvo el siguiente error:") >>
    \o correction_prompt
    \o << Lit("Por favor, genera una respuesta completa y correcta que incluya TODOS los campos del schema.") >>

Request(user, temperature) == [user |-> user, temperature |-> temperature]

\* The model answers a request.
rq_Answer(r, rejected) ==
    /\ rq_response' = r
    /\ rq_pc' = CASE r.fault = "provider_error" -> "raised"
                  [] r.fault = "none" -> "returned"
                  [] OTHER -> rejected

\* extract_profile up to the outcome of its model call.
rq_FirstCall ==
    /\ rq_pc = "start"
    /\ rq_requests' = << Request(user_prompt(rq_text), rq_temperature) >>
    /\ \E r \in Responses : rq_Answer(r, "correcting")
    /\ UNCHANGED <<rq_client, rq_temperature, rq_text, rq_attempt, notPromptVars>>

\* generate_correction_prompt and _retry_with_correction.
rq_CorrectionCall ==
    /\ rq_pc = "correcting"
    /\ rq_requests' = Append(rq_requests,
          Request(full_user_prompt(rq_text,
                      generate_correction_prompt(rq_response.chars,
                                                 ErrorMessage(rq_response))),
                  CorrectionTemperature))
    /\ \E r \in Responses : rq_Answer(r, "raised")
    /\ UNCHANGED <<rq_client, rq_temperature, rq_text, rq_attempt, notPromptVars>>

\* The @retry decorator runs extract_profile again after an exception.
rq_TenacityRetry ==
    /\ rq_pc = "raised"
    /\ rq_attempt < stop_after_attempt(rq_client)
    /\ rq_attempt' = rq_attempt + 1
    /\ rq_pc' = "start"
    /\ rq_requests' = << >>
    /\ UNCHANGED <<rq_client, rq_temperature, rq_text, rq_response, notPromptVars>>

PromptIdle ==
    /\ rq_client = "OpenAI"
    /\ rq_temperature = CorrectionTemperature
    /\ rq_text = "cv_a"
    /\ rq_pc = "none"
    /\ rq_attempt = 0
    /\ rq_requests = << >>
    /\ rq_response = NoResponse

(***************************************************************************)
(* Response parser: parse_json_safely of schema/validator.py               *)
(*                                                                         *)
(* A text is the sequence of its characters; "q" stands for a quoted       *)
(* string literal and "1" for a number literal.  Parsed data is written as *)
(* the flat sequence of its parts, so that two results can be compared.    *)
(***************************************************************************)

\* The nesting depth at which the decoder of json.loads gives up with a
\* RecursionError (the interpreter's recursion limit, scaled down).
RecursionLimit == 3

\* Three backticks; "backtick" names the character.
Fence == <<"backtick", "backtick", "backtick">>

\* str.startswith
startswith(s, prefix) ==
    Len(prefix) <= Len(s) /\ SubSeq(s, 1, Len(prefix)) = prefix

\* str.split(sep) for a separator of one character.
RECURSIVE split(_, _)
split(s, sep) ==
    IF \E i \in 1..Len(s) : s[i] = sep
    THEN LET i == CHOOSE i \in 1..Len(s) :
                    s[i] = sep /\ \A j \in 1..(i - 1) : s[j] # sep
         IN  <<SubSeq(s, 1, i - 1)>> \o split(SubSeq(s, i + 1, Len(s)), sep)
    ELSE <<s>>

\* sep.join(lines)
RECURSIVE join(_, _)
join(lines, sep) ==
    IF lines = << >> THEN << >>
    ELSE IF Len(lines) = 1 THEN lines[1]
    ELSE lines[1] \o <<sep>> \o join(Tail(lines), sep)

\* The position of the first character of s at or after i that is not JSON
\* whitespace, Len(s) + 1 when there is none.
RECURSIVE SkipWs(_, _)
SkipWs(s, i) == IF i <= Len(s) /\ IsSpace(s[i]) THEN SkipWs(s, i + 1) ELSE i

JsonError(status) == [status |-> status, flat |-> << >>, end |-> 0]
JsonValue(flat, end) == [status |-> "ok", flat |-> flat, end |-> end]

\* The decoder of json.loads on the value that starts at position i, depth
\* containers being open: the value and the position after it, or the
\* exception raised.
RECURSIVE scan_once(_, _, _)
scan_once(s, i, depth) ==
    IF i > Len(s) THEN JsonError("JSONDecodeError")
    ELSE CASE s[i] = "1" -> JsonValue(<<"number">>, i + 1)
           [] s[i] = "q" -> JsonValue(<<"string">>, i + 1)
           [] s[i] = "[" ->
                IF depth >= RecursionLimit THEN JsonError("RecursionError")
                ELSE LET j == SkipWs(s, i + 1)
                     IN  IF j <= Len(s) /\ s[j] = "]"
                         THEN JsonValue(<<"list(", ")">>, j + 1)
                         ELSE LET item == scan_once(s, j, depth + 1)
                                  k == SkipWs(s, item.end)
                              IN  IF item.status # "ok" THEN item
                                  ELSE IF k <= Len(s) /\ s[k] = "]"
                                  THEN JsonValue(<<"list(">> \o item.flat \o <<")">>, k + 1)
                                  ELSE JsonError("JSONDecodeError")
           [] s[i] = "{" ->
                IF depth >= RecursionLimit THEN JsonError("RecursionError")
                ELSE LET j == SkipWs(s, i + 1)
                     IN  IF j <= Len(s) /\ s[j] = "}"
                         THEN JsonValue(<<"dict(", ")">>, j + 1)
                         ELSE IF j > Len(s) \/ s[j] # "q" THEN JsonError("JSONDecodeError")
                         ELSE LET c == SkipWs(s, j + 1)
                              IN  IF c > Len(s) \/ s[c] # ":" THEN JsonError("JSONDecodeError")
                                  ELSE LET item == scan_once(s, SkipWs(s, c + 1), depth + 1)
                                           k == SkipWs(s, item.end)
                                       IN  IF item.status # "ok" THEN item
                                           ELSE IF k <= Len(s) /\ s[k] = "}"
                                           THEN JsonValue(<<"dict(", "key:">> \o item.flat \o <<")">>,
                                                          k + 1)
                                           ELSE JsonError("JSONDecodeError")
           [] OTHER -> JsonError("JSONDecodeError")

\* json.loads(text): one value, with nothing but whitespace around it.
json_loads(s) ==
    LET value == scan_once(s, SkipWs(s, 1), 0)
    IN  IF value.status # "ok" THEN value
        ELSE IF SkipWs(s, value.end) <= Len(s) THEN JsonError("JSONDecodeError")
        ELSE value

\* "Remover markdown code blocks" of parse_json_safely.
remove_code_block(text) ==
    IF startswith(text, Fence)
    THEN LET lines == split(text, "\n")
             body == IF startswith(lines[1], Fence) THEN Tail(lines) ELSE lines
             kept == IF body # << >> /\ Strip(body[Len(body)]) = Fence
                     THEN SubSeq(body, 1, Len(body) - 1) ELSE body
         IN  join(kept, "\n")
    ELSE text

\* parse_json_safely(text): the tuple (data, error) it returns, or the
\* exception that leaves it.
parse_json_safely(text) ==
    LET loaded == json_loads(remove_code_block(Strip(text)))
    IN  CASE loaded.status = "RecursionError" ->
               [raised |-> TRUE, data |-> {}, error |-> "RecursionError"]
          [] loaded.status = "JSONDecodeError" ->
               [raised |-> FALSE, data |-> {}, error |-> "Error parseando JSON"]
          [] loaded.flat[1] # "dict(" ->
               [raised |-> FALSE, data |-> {},
                error |-> "El JSON parseado no es un objeto"]
          [] OTHER -> [raised |-> FALSE, data |-> {loaded.flat}, error |-> "None"]

\* The call of parse_json_safely.
ParseJsonSafely ==
    /\ jpc = "input"
    /\ j_out' = parse_json_safely(j_text)
    /\ jpc' = IF parse_json_safely(j_text).raised THEN "raised" ELSE "returned"
    /\ UNCHANGED <<j_text, notParserVars>>

\* depth opening brackets around a number.
RECURSIVE Nested(_)
Nested(depth) ==
    IF depth = 0 THEN <<"1">> ELSE <<"[">> \o Nested(depth - 1) \o <<"]">>

\* The texts between the fences: objects, other values, malformed texts.
Objects ==
    {<<"{", "}">>, <<"{", "q", ":", "1", "}">>,
     <<"{", "\n", " ", "q", ":", " ", "[", "q", "]", "\n", "}">>}
    \cup {<<"{", "q", ":">> \o Nested(depth) \o <<"}">> : depth \in 1..RecursionLimit}

OtherValues ==
    {<<"q">>} \cup {Nested(depth) : depth \in 0..(RecursionLimit + 1)}

Malformed ==
    {<< >>, <<"{", "q", "}">>, <<"{", "q", ":", "1">>, <<"{", "}", "{", "}">>,
     <<"n", "o">>}

Opens ==
    {<< >>, Fence \o <<"\n">>, Fence \o <<"j", "s", "o", "n", "\n">>,
     <<" ">> \o Fence \o <<"\n">>, Fence}

Closes ==
    {<< >>, <<"\n">> \o Fence, <<"\n">> \o Fence \o <<" ", "\n">>,
     <<"\n", " ">> \o Fence, Fence}

ParserIdle ==
    /\ j_text = << >>
    /\ j_out = [raised |-> FALSE, data |-> {}, error |-> "None"]
    /\ jpc = "idle"

(***************************************************************************)
(* The record of one document: process_single_cv of app.py                 *)
(*                                                                         *)
(* A record is a function from its keys to tagged values, as in the        *)
(* derived fields above.                                                   *)
(***************************************************************************)

\* The keys process_single_cv sets before it reads the document.
MetadataKeys == {"archivo", "fuente", "link", "error"}

\* The names a schema of the run can declare: load_yaml_schema accepts any
\* name, the ones of the metadata keys included.
FieldNames ==
    {"nombre", "edad_en_rango", "hay_foto_en_cv", "archivo", "fuente", "link",
     "error"}

\* The most fields a schema of the run declares.
MaxFields == 2

\* The values extract_profile returns for a field.
FieldValues ==
    <<BoolV(TRUE), StrV(<<"x">>), NoneV, ListV(<<StrV(<<"a">>), StrV(<<"a">>)>>)>>

\* The first four keys of the record, for a document of the given source.
Metadata(source) ==
    [key \in MetadataKeys |->
        CASE key = "archivo" -> StrV(<<"c", "v">>)
          [] key = "fuente" -> StrV(IF source = "local" THEN <<"l">> ELSE <<"d">>)
          [] key = "link" -> StrV(IF source = "local" THEN << >> ELSE <<"u">>)
          [] key = "error" -> StrV(<< >>)]

\* dict.update
update(rec, other) ==
    [key \in DOMAIN rec \cup DOMAIN other |->
        IF key \in DOMAIN other THEN other[key] ELSE rec[key]]

\* result[key] = value
Set(rec, key, value) ==
    [k \in DOMAIN rec \cup {key} |-> IF k = key THEN value ELSE rec[k]]

\* What the collaborators of process_single_cv do for the document.
Fates == {"download_error", "parse_error", "extract_error", "extracted"}

\* process_single_cv: the record it returns, given what the download, the
\* parsing and extract_profile do (data: the dict extract_profile returns).
process_single_cv(source, outcome, data, empty_raises) ==
    LET result0 == Metadata(source)
        hashed == IF source = "drive" /\ outcome # "download_error"
                  THEN Set(result0, "sha1", StrV(<<"h">>)) ELSE result0
        merged == update(hashed, data)
        derived == calculate_derived_fields(merged, empty_raises)
    IN  IF outcome # "extracted" THEN Set(hashed, "error", StrV(<<"e">>))
        ELSE IF derived.raised THEN Set(merged, "error", StrV(<<"e">>))
        ELSE CHOOSE rec \in derived.result : TRUE

\* The call of process_single_cv.
ProcessSingleCv ==
    /\ rpc = "input"
    /\ \E outcome \in Fates, empty_raises \in BOOLEAN :
          \E pick \in [r_schema -> 1..Len(FieldValues)] :
             /\ outcome = "download_error" => r_file = "drive"
             /\ r_result' = process_single_cv(r_file, outcome,
                               [name \in r_schema |-> FieldValues[pick[name]]],
                               empty_raises)
    /\ rpc' = "returned"
    /\ UNCHANGED <<r_file, r_schema, notRecordVars>>

RecordIdle ==
    /\ r_file = "local"
    /\ r_schema = {}
    /\ r_result = << >>
    /\ rpc = "idle"

(***************************************************************************)
(* Specifications                                                          *)
(***************************************************************************)

InitClient ==
    /\ ClientIdle /\ BatchIdle /\ ValidatorIdle /\ LoaderIdle /\ DerivedIdle
    /\ SharedIdle /\ PromptIdle
    /\ RecordIdle
    /\ ParserIdle

NextClient ==
    \E c \in Clients :
        \/ CallExtractProfile(c)
        \/ Draft(c)
        \/ Parse(c)
        \/ Validate(c)
        \/ Correct(c)
        \/ ParseRetry(c)
        \/ ValidateRetry(c)
        \/ TenacityRetry(c)

SpecClient == InitClient /\ [][NextClient]_vars

(* Inputs of the validator: schemas as load_yaml_schema returns them, with  *)
(* a main field "f1" of every kind the validator tells apart and up to     *)
(* MaxCompanions further fields, and records a model can answer with.      *)

MaxStrLen == 2
MaxCompanions == 1

Alphabet == {"1", "a", "A", " "}

Strings ==
    UNION {[1..n -> Alphabet] : n \in 0..MaxStrLen}
      \cup {<<"1","5","0"," ","a">>, <<"t","r","u","e">>, <<"T","r","u","e"," ">>,
            <<"n","o">>, <<"N","O">>, <<"s","i">>, <<"s","i_acute">>, <<"0">>,
            <<"x">>, <<"y","e","s">>, <<"Y","E","S">>,
            <<"v","e","r","d","a","d","e","r","o">>, <<"f","a","l","s","e">>,
            <<" ","F","a","l","s","o">>, <<"t","r","u","e","s">>}

AtomValues ==
    <<NoneV, IntV(0), IntV(1), IntV(2), IntV(20), IntV(21),
      FloatV(3), FloatV(4), FloatV(41), FloatV(300),
      BoolV(TRUE), BoolV(FALSE),
      ListV(<< >>), ListV(<<StrV(<<"a">>)>>), ListV(<<IntV(1)>>),
      ListV(<<StrV(<<"a">>), StrV(<<" ", "A">>)>>)>>

\* A pick is <<0, _>> for an absent key, <<i, _>> for AtomValues[i] and
\* <<-1, s>> for the string s.
Picks == ((0..Len(AtomValues)) \X {<< >>}) \cup ({-1} \X Strings)

ValueOfPick(p) == IF p[1] = -1 THEN StrV(p[2]) ELSE AtomValues[p[1]]

Var(name, type, required, has_min, has_max) ==
    [name |-> name, type |-> type, required |-> required,
     has_min |-> has_min, min |-> 2, has_max |-> has_max, max |-> 20,
     allowed_values |->
        IF type = "categorical" THEN {<<"a">>, <<"a", "A">>, <<"1">>} ELSE {}]

Kinds == {"string", "integer", "float", "boolean", "categorical", "list[string]"}

\* The main field: min / max are given to numeric fields only.
MainVars ==
    {Var("f1", ty, rq, mn, mx) :
        ty \in Kinds, rq \in BOOLEAN, mn \in BOOLEAN, mx \in BOOLEAN}

MainVarOk(var) == (var.has_min \/ var.has_max) => var.type \in {"integer", "float"}

CompanionName(i) == CASE i = 1 -> "f2" [] i = 2 -> "f3" [] OTHER -> "f4"

\* A companion field is a required string or an optional bounded integer,
\* and its value is absent, valid or invalid.
CompanionVar(i, kind) ==
    IF kind = "string" THEN Var(CompanionName(i), "string", TRUE, FALSE, FALSE)
    ELSE Var(CompanionName(i), "integer", FALSE, TRUE, TRUE)

CompanionValue(kind, state) ==
    IF kind = "string"
    THEN IF state = "valid" THEN StrV(<<"a">>) ELSE IntV(1)
    ELSE IF state = "valid" THEN IntV(2) ELSE IntV(21)

ExtraKey == "extra"

\* The dict of the record: the keys that are present, with their values.
DataOf(p, n, ckind, cstate, extra) ==
    [key \in (IF p[1] = 0 THEN {} ELSE {"f1"})
               \cup {CompanionName(i) : i \in {j \in 1..n : cstate[j] # "absent"}}
               \cup (IF extra THEN {ExtraKey} ELSE {}) |->
        IF key = "f1" THEN ValueOfPick(p)
        ELSE IF key = ExtraKey THEN StrV(<<"a">>)
        ELSE LET i == CHOOSE i \in 1..n : CompanionName(i) = key
             IN  CompanionValue(ckind[i], cstate[i])]

\* The schema {nombre: string required, edad: integer[18,80],
\* score_general: integer[1,10] required} and the model output
\* {"nombre": "Ana Gomez", "edad": "32 años", "score_general": "8"};
\* "n_tilde" stands for the letter between "a" and "o" of "años".
ScenarioSchema ==
    <<[name |-> "nombre", type |-> "string", required |-> TRUE,
       has_min |-> FALSE, min |-> 0, has_max |-> FALSE, max |-> 0,
       allowed_values |-> {}],
      [name |-> "edad", type |-> "integer", required |-> FALSE,
       has_min |-> TRUE, min |-> 18, has_max |-> TRUE, max |-> 80,
       allowed_values |-> {}],
      [name |-> "score_general", type |-> "integer", required |-> TRUE,
       has_min |-> TRUE, min |-> 1, has_max |-> TRUE, max |-> 10,
       allowed_values |-> {}]>>

AnaGomez == <<"A","n","a"," ","G","o","m","e","z">>

ScenarioData ==
    [key \in {"nombre", "edad", "score_general"} |->
        CASE key = "nombre" -> StrV(AnaGomez)
          [] key = "edad" -> StrV(<<"3","2"," ","a","n_tilde","o","s">>)
          [] key = "score_general" -> StrV(<<"8">>)]

InitValidator ==
    /\ ClientIdle
    /\ RecordIdle
    /\ ParserIdle
    /\ PromptIdle
    /\ SharedIdle
    /\ BatchIdle
    /\ LoaderIdle
    /\ DerivedIdle
    /\ vpc = "input"
    /\ v_out = [is_valid |-> FALSE, validated |-> NoData, error |-> NoError]
    /\ \/ \E var \in MainVars, p \in Picks, n \in 0..MaxCompanions, extra \in BOOLEAN :
            \E ckind \in [1..n -> {"string", "integer"}],
               cstate \in [1..n -> {"absent", "valid", "invalid"}] :
               /\ MainVarOk(var)
               /\ v_schema = <<var>> \o [i \in 1..n |-> CompanionVar(i, ckind[i])]
               /\ v_data = DataOf(p, n, ckind, cstate, extra)
       \/ /\ v_schema = ScenarioSchema
          /\ v_data = ScenarioData

NextValidator == ValidateExtraction

SpecValidator == InitValidator /\ [][NextValidator]_vars

InitLoader ==
    /\ ClientIdle
    /\ RecordIdle
    /\ ParserIdle
    /\ PromptIdle
    /\ SharedIdle
    /\ BatchIdle
    /\ ValidatorIdle
    /\ DerivedIdle
    /\ lpc = "input"
    /\ l_out = [raised |-> FALSE, error |-> NoValueError, schema |-> NoSchema]
    /\ \/ l_source \in BadDocuments
       \/ \E n \in 0..MaxVariables, has_version \in BOOLEAN :
             \E pick \in [1..n -> 1..Len(Entries)] :
                l_source = [Document([i \in 1..n |-> Entries[pick[i]]])
                               EXCEPT !.has_version = has_version]

NextLoader == LoadYamlSchema

SpecLoader == InitLoader /\ [][NextLoader]_vars

InitDerived ==
    /\ ClientIdle
    /\ RecordIdle
    /\ ParserIdle
    /\ PromptIdle
    /\ SharedIdle
    /\ BatchIdle
    /\ ValidatorIdle
    /\ LoaderIdle
    /\ dpc = "input"
    /\ d_out = [raised |-> FALSE, result |-> {}]
    /\ \E probe \in 1..Len(SignalFields), value \in 1..Len(SignalValues) :
          \E others \in [1..Len(SignalFields) -> 0..Len(PlainValues)] :
             d_result =
                [key \in {SignalFields[i] : i \in
                             {j \in 1..Len(SignalFields) : j = probe \/ others[j] # 0}} |->
                    LET i == CHOOSE i \in 1..Len(SignalFields) : SignalFields[i] = key
                    IN  IF i = probe THEN SignalValues[value]
                        ELSE PlainValues[others[i]]]

NextDerived == CalculateDerivedFields

SpecDerived == InitDerived /\ [][NextDerived]_vars

InitShared ==
    /\ ClientIdle
    /\ RecordIdle
    /\ ParserIdle
    /\ PromptIdle
    /\ BatchIdle
    /\ ValidatorIdle
    /\ LoaderIdle
    /\ DerivedIdle
    /\ s_client \in Clients
    /\ s_pc = [d \in Calls |-> "idle"]
    /\ s_attempt = [d \in Calls |-> 0]
    /\ s_retry_count = [d \in Calls |-> 0]
    /\ s_responses = [d \in Calls |-> << >>]

NextShared ==
    \E d \in Calls :
        \/ s_CallExtractProfile(d)
        \/ s_ModelCall(d)
        \/ s_Check(d)
        \/ s_CheckRetry(d)
        \/ s_TenacityRetry(d)

SpecShared == InitShared /\ [][NextShared]_vars

InitBatch ==
    /\ ClientIdle
    /\ RecordIdle
    /\ ParserIdle
    /\ PromptIdle
    /\ SharedIdle
    /\ ValidatorIdle
    /\ LoaderIdle
    /\ DerivedIdle
    /\ schema_yaml \in {"valid", "invalid"}
    /\ schema = "unset"
    /\ files \in FileLists
    /\ options \in [max_files : 1..NumFiles, max_workers : 1..MaxWorkers]
    /\ bpc = "sidebar"
    /\ selected_files = << >>
    /\ task = [d \in Docs |-> "none"]
    /\ result = [d \in Docs |-> NoResult]
    /\ fate = [d \in Docs |-> NoFate]
    /\ results = << >>
    /\ errors = << >>

NextBatch ==
    \/ ConfigureSchema
    \/ ProcessAllCvs
    \/ \E d \in Docs :
         \/ StartTask(d)
         \/ ObtainText(d)
         \/ ExtractProfile(d)
         \/ Collect(d)
    \/ FinishBatch

SpecBatch == InitBatch /\ [][NextBatch]_vars

\* The batch when calls of the model may hang.  The threads of the pool and
\* the main thread are scheduled by the operating system: a step that stays
\* possible is eventually taken.
NextBatchHang ==
    \/ NextBatch
    \/ \E d \in Docs : ModelCallHangs(d)

SpecBatchHang == InitBatch /\ [][NextBatchHang]_vars /\ WF_vars(NextBatch)

\* One extract_profile call of a client of either class, configured with any
\* temperature of the slider.
InitPrompt ==
    /\ rq_client \in Clients
    /\ rq_temperature \in Temperatures
    /\ rq_text \in Texts
    /\ rq_pc = "start"
    /\ rq_attempt = 1
    /\ rq_requests = << >>
    /\ rq_response = NoResponse
    /\ ClientIdle
    /\ RecordIdle
    /\ ParserIdle
    /\ SharedIdle
    /\ BatchIdle
    /\ ValidatorIdle
    /\ LoaderIdle
    /\ DerivedIdle

NextPrompt ==
    \/ rq_FirstCall
    \/ rq_CorrectionCall
    \/ rq_TenacityRetry

SpecPrompt == InitPrompt /\ [][NextPrompt]_vars

\* One call of parse_json_safely on a text with or without fences.
InitParser ==
    /\ ClientIdle
    /\ RecordIdle
    /\ PromptIdle
    /\ SharedIdle
    /\ BatchIdle
    /\ ValidatorIdle
    /\ LoaderIdle
    /\ DerivedIdle
    /\ jpc = "input"
    /\ j_out = [raised |-> FALSE, data |-> {}, error |-> "None"]
    /\ \E open \in Opens, close \in Closes :
          \E body \in Objects \cup OtherValues \cup Malformed :
             j_text = open \o body \o close

NextParser == ParseJsonSafely

SpecParser == InitParser /\ [][NextParser]_vars

\* One call of process_single_cv, for a local or a Drive document and a
\* schema of up to MaxFields fields.
InitRecord ==
    /\ ClientIdle
    /\ PromptIdle
    /\ ParserIdle
    /\ SharedIdle
    /\ BatchIdle
    /\ ValidatorIdle
    /\ LoaderIdle
    /\ DerivedIdle
    /\ rpc = "input"
    /\ r_result = << >>
    /\ r_file \in {"local", "drive"}
    /\ r_schema \in {names \in SUBSET FieldNames : Cardinality(names) <= MaxFields}

NextRecord == ProcessSingleCv

SpecRecord == InitRecord /\ [][NextRecord]_vars

(***************************************************************************)
(* Claims                                                                  *)
(***************************************************************************)

\* C1: when every response fails parsing or validation, extract_profile
\* (either client) never makes a third model call, and it ends after exactly
\* two calls in the rejection of the document.
C1_TwoCallsThenRejected ==
    \A c \in Clients :
        AllInvalid(Consumed(c)) =>
            /\ calls[c] <= 2
            /\ Finished(c) => (calls[c] = 2 /\ Outcome(c) = "rejected")

\* C2: after a model invocation that failed (provider error), extract_profile
\* makes no further model call: a provider failure is always the last call.
C2_ProviderErrorNotRetried ==
    \A c \in Clients :
        \A k \in 1..calls[c] :
            script[k] = "provider_error" => k = calls[c]

\* C3: on the same sequence of model outcomes the two clients go through the
\* same states, make the same number of calls and end with the same outcome.
C3_ClientsEquivalent ==
    (Finished("OpenAI") /\ Finished("LiteLLM")) =>
        /\ trace["OpenAI"] = trace["LiteLLM"]
        /\ calls["OpenAI"] = calls["LiteLLM"]
        /\ Outcome("OpenAI") = Outcome("LiteLLM")


\* The records of the result set that belong to document d.
RecordsOf(d) == SelectSeq(results, LAMBDA r : r.archivo = d)

Submitted(d) == InSeq(selected_files, d)

\* The record document d gets from its own collaborators' answers alone.
OwnRecord(d, f) ==
    [archivo |-> d,
     fuente |-> files[d].source,
     link |-> Link(d),
     error |-> IF f.text # "ok" THEN ErrorString(f.text)
               ELSE IF f.llm # "accepted" THEN ErrorString(f.llm)
               ELSE IF f.derived # "ok" THEN ErrorString(f.derived)
               ELSE "",
     sha1 |-> files[d].source = "drive" /\ f.text # "download_error",
     extracted |-> f.text = "ok" /\ f.llm = "accepted",
     preaprobado |-> f.text = "ok" /\ f.llm = "accepted" /\ f.derived = "ok"]

\* C4: the failure of one document changes only that document's record: the
\* record of every document is the one its own answers determine, whatever
\* happened to the others, and every submitted document runs to the end.
C4_FailureIsolated ==
    /\ \A d \in Docs :
          /\ task[d] = "finished" => result[d] = OwnRecord(d, fate[d])
          /\ task[d] = "collected" => RecordsOf(d) = <<OwnRecord(d, fate[d])>>
    /\ bpc = "done" => \A d \in Docs : Submitted(d) => task[d] = "collected"

\* C4 witness: a finished batch of three documents in which the model call
\* of the second raised a provider error and the two others succeeded.
C4_Witness ==
    /\ bpc = "done"
    /\ selected_files = <<1, 2, 3>>
    /\ fate[2].llm = "provider_error"
    /\ RecordsOf(2)[1].error # ""
    /\ \A d \in {1, 3} : RecordsOf(d)[1].error = "" /\ RecordsOf(d)[1].extracted

Populated(r) == r.extracted

\* C5 as stated: after process_all_cvs finishes, every selected document has
\* exactly one record, with its fields populated or a non-empty error.
C5_EverySelectedHasRecord ==
    bpc = "done" =>
        \A d \in Docs :
            files[d].selected =>
                /\ Len(RecordsOf(d)) = 1
                /\ Populated(RecordsOf(d)[1]) \/ RecordsOf(d)[1].error # ""

\* C5 amended: after a run of process_all_cvs that reached the pool, every
\* submitted document (the selected ones, cut to the first max_files) has
\* exactly one record, with its fields populated or a non-empty error, the
\* result set holds nothing else, and a failed document never stops the run.
C5_EverySubmittedHasRecord ==
    /\ bpc = "done" =>
          /\ \A d \in Docs :
                Submitted(d) =>
                    /\ Len(RecordsOf(d)) = 1
                    /\ Populated(RecordsOf(d)[1]) \/ RecordsOf(d)[1].error # ""
          /\ Len(results) = Len(selected_files)
    /\ bpc = "pool" => ENABLED NextBatch

\* C5 witness: a finished batch that was cut by max_files and holds both a
\* populated record and a record with an error.
C5_Witness ==
    /\ bpc = "done"
    /\ Len(selected_files) < Cardinality({d \in Docs : files[d].selected})
    /\ \E i, j \in 1..Len(results) :
          /\ results[i].error # "" /\ ~Populated(results[i])
          /\ results[j].error = "" /\ Populated(results[j])

\* C6: with an invalid schema source no document pipeline ever starts: no
\* task is submitted, no collaborator is asked anything, no record is made.
C6_InvalidSchemaStartsNothing ==
    schema_yaml = "invalid" =>
        /\ \A d \in Docs : task[d] = "none" /\ fate[d] = NoFate
        /\ results = << >>
        /\ bpc \notin {"pool", "done"}

\* C6 witness: process_all_cvs was called with selected files and returned at
\* its schema check.
C6_Witness ==
    /\ schema_yaml = "invalid"
    /\ bpc = "returned"
    /\ \E d \in Docs : files[d].selected

(***************************************************************************)
(* Claims about the response validator                                     *)
(***************************************************************************)

Returned == vpc = "returned"

Present(name) == name \in DOMAIN v_data

ErrorNames(name) == \E k \in 1..Len(v_out.error) : v_out.error[k] = name

\* C7: validate_extraction rejects every record that has a top-level key the
\* schema does not declare, also when every declared field is valid.
C7_UndeclaredKeyRejected ==
    (Returned /\ \E key \in DOMAIN v_data : key \notin SchemaNames(v_schema))
        => ~v_out.is_valid

\* A required field that is absent, null, or a string that the coercion of
\* an integer / float / boolean field turns into null.
RequiredMissing(var) ==
    /\ var.required
    /\ \/ ~Present(var.name)
       \/ v_data[var.name].t = "null"
       \/ /\ var.type \in {"integer", "float", "boolean"}
          /\ v_data[var.name].t = "str"
          /\ Coerce(var.type, v_data[var.name]).t = "null"

\* C8: a record in which a required field is absent or null (or is a string
\* that coerces to null) is rejected, no validated data is returned, and the
\* error message names the field.
C8_RequiredEnforced ==
    Returned =>
        \A i \in 1..Len(v_schema) :
            RequiredMissing(v_schema[i]) =>
                /\ ~v_out.is_valid
                /\ v_out.validated = NoData
                /\ ErrorNames(v_schema[i].name)

\* C8 witness: a required integer field answered with a string without any
\* digit has been rejected.
C8_Witness ==
    /\ Returned
    /\ v_schema[1].type = "integer"
    /\ v_schema[1].required
    /\ Present("f1")
    /\ v_data["f1"].t = "str"
    /\ v_data["f1"].v = <<"a", "A">>
    /\ ~v_out.is_valid
    /\ ErrorNames("f1")

\* The value of a numeric field in the validated data, in halves.
Halves(value) == IF value.t = "int" THEN 2 * value.v ELSE value.v

\* C9: an accepted record has every numeric (integer or float) field that
\* declares min / max within min <= value <= max.
C9_BoundsEnforced ==
    (Returned /\ v_out.is_valid) =>
        \A i \in 1..Len(v_schema) :
            LET var == v_schema[i]
                value == (CHOOSE d \in v_out.validated : TRUE)[var.name]
            IN  (var.type \in {"integer", "float"} /\ value.t # "null") =>
                    /\ var.has_min => Halves(value) >= 2 * var.min
                    /\ var.has_max => Halves(value) <= 2 * var.max

\* C10: for a categorical field, a value that is exactly one of
\* allowed_values is accepted (no error for the field, and the record is
\* accepted when it is the only field), and any other string is rejected.
C10_CategoricalExact ==
    Returned =>
        \A i \in 1..Len(v_schema) :
            LET var == v_schema[i]
            IN  (var.type = "categorical" /\ Present(var.name)
                    /\ v_data[var.name].t = "str") =>
                  IF v_data[var.name].v \in var.allowed_values
                  THEN /\ ~ErrorNames(var.name)
                       /\ Len(v_schema) = 1 => v_out.is_valid
                  ELSE ~v_out.is_valid /\ ErrorNames(var.name)

\* C10 witness: a categorical value that differs from an allowed value only
\* in letter case has been rejected.
C10_Witness ==
    /\ Returned
    /\ v_schema[1].type = "categorical"
    /\ Present("f1")
    /\ v_data["f1"].t = "str"
    /\ v_data["f1"].v = <<"A">>
    /\ <<"a">> \in v_schema[1].allowed_values
    /\ ~v_out.is_valid

\* The record validate_extraction returned, when it returned one.
Validated == CHOOSE d \in v_out.validated : TRUE

\* The record after the coercion pass.
Coerced == preprocess_data(v_data, v_schema)

\* s[i..j] is the first run of digits of s.
IsFirstRun(s, i, j) ==
    /\ 1 <= i /\ i <= j /\ j <= Len(s)
    /\ \A k \in 1..(i - 1) : s[k] \notin Digits
    /\ \A k \in i..j : s[k] \in Digits
    /\ j < Len(s) => s[j + 1] \notin Digits

\* The number a run of decimal digits writes.
Decimal(s) ==
    LET RECURSIVE Sum(_)
        Sum(k) == IF k = 0 THEN 0 ELSE 10 * Sum(k - 1) + DigitVal(s[k])
    IN  Sum(Len(s))

Capital(c) ==
    CASE c = "a" -> "A" [] c = "d" -> "D" [] c = "e" -> "E" [] c = "f" -> "F"
      [] c = "i" -> "I" [] c = "l" -> "L" [] c = "n" -> "N" [] c = "o" -> "O"
      [] c = "r" -> "R" [] c = "s" -> "S" [] c = "t" -> "T" [] c = "u" -> "U"
      [] c = "v" -> "V" [] c = "y" -> "Y" [] c = "i_acute" -> "I_acute"
      [] OTHER -> c

\* s is the token tok, up to letter case and surrounding spaces.
IsToken(s, tok) ==
    \E i, j \in 0..Len(s) :
        /\ i + Len(tok) + j = Len(s)
        /\ \A k \in 1..i : s[k] = " "
        /\ \A k \in (Len(s) - j + 1)..Len(s) : s[k] = " "
        /\ \A k \in 1..Len(tok) : s[i + k] \in {tok[k], Capital(tok[k])}

Affirmative ==
    {<<"t","r","u","e">>, <<"y","e","s">>, <<"s","i_acute">>, <<"s","i">>,
     <<"1">>, <<"v","e","r","d","a","d","e","r","o">>}

Negative == {<<"f","a","l","s","e">>, <<"n","o">>, <<"0">>, <<"f","a","l","s","o">>}

\* C12: a string given for a boolean field is coerced to true when it is an
\* affirmative token, to false when it is a negative token (letter case and
\* surrounding spaces ignored) and to null otherwise; the coercion of a
\* string for an integer, float or boolean field always yields a value.
C12_BooleanCoercion ==
    Returned =>
        \A n \in 1..Len(v_schema) :
            LET var == v_schema[n]
            IN  (Present(var.name) /\ v_data[var.name].t = "str") =>
                  LET s == v_data[var.name].v
                      c == Coerced[var.name]
                  IN  /\ var.type = "boolean" =>
                           IF \E tok \in Affirmative : IsToken(s, tok)
                           THEN c.t = "bool" /\ c.v = TRUE
                           ELSE IF \E tok \in Negative : IsToken(s, tok)
                           THEN c.t = "bool" /\ c.v = FALSE
                           ELSE c.t = "null"
                      /\ var.type = "integer" => c.t \in {"int", "null"}
                      /\ var.type = "float" => c.t \in {"float", "null"}

\* C12 witness: "NO" given for a boolean field has been validated as false.
C12_Witness ==
    /\ Returned
    /\ v_schema[1].type = "boolean"
    /\ Present("f1")
    /\ v_data["f1"].t = "str"
    /\ v_data["f1"].v = <<"N", "O">>
    /\ v_out.is_valid
    /\ Validated["f1"].t = "bool"
    /\ Validated["f1"].v = FALSE

\* The declared kind of a field and the type of a JSON value agree.
HasDeclaredKind(var, value) ==
    \/ var.type = "integer" /\ value.t = "int"
    \/ var.type = "float" /\ value.t = "float"
    \/ var.type = "boolean" /\ value.t = "bool"
    \/ var.type \in {"string", "categorical"} /\ value.t = "str"
    \/ var.type = "list[string]" /\ value.t = "list"
         /\ \A k \in 1..Len(value.v) : value.v[k].t = "str"

\* Two JSON values of the kinds above are the same value.
SameValue(a, b) ==
    /\ a.t = b.t
    /\ IF a.t = "list"
       THEN /\ Len(a.v) = Len(b.v)
            /\ \A k \in 1..Len(a.v) : a.v[k].t = b.v[k].t /\ a.v[k].v = b.v[k].v
       ELSE a.v = b.v

\* r is s without its leading and trailing spaces.
IsStripped(r, s) ==
    /\ r = << >> \/ (r[1] # " " /\ r[Len(r)] # " ")
    /\ \E i, j \in 0..Len(s) :
          /\ i + Len(r) + j = Len(s)
          /\ \A k \in 1..i : s[k] = " "
          /\ \A k \in 1..j : s[i + Len(r) + k] = " "
          /\ \A k \in 1..Len(r) : s[i + k] = r[k]

\* b is a with its strings (a itself, or the strings of the list a) stripped
\* of their surrounding spaces, and a itself when a holds no string.
SameUpToStrip(a, b) ==
    /\ a.t = b.t
    /\ CASE a.t = "str" -> IsStripped(b.v, a.v)
         [] a.t = "list" ->
              /\ Len(a.v) = Len(b.v)
              /\ \A k \in 1..Len(a.v) :
                    b.v[k].t = "str" /\ IsStripped(b.v[k].v, a.v[k].v)
         [] OTHER -> a.v = b.v

\* Coercing the coerced record again changes nothing.
CoercionIdempotent ==
    LET again == preprocess_data(Coerced, v_schema)
    IN  /\ DOMAIN again = DOMAIN Coerced
        /\ \A key \in DOMAIN Coerced :
              /\ again[key].t = Coerced[key].t
              /\ again[key].t # "list" => again[key].v = Coerced[key].v

AbsentOptional(var) == ~var.required /\ ~Present(var.name)

\* C14 as stated: an accepted record has exactly the declared field names as
\* keys, and an optional field absent from the input is null for a scalar
\* kind and the empty list for a list kind.
C14_KeySetAndEmptyForms ==
    (Returned /\ v_out.is_valid) =>
        /\ DOMAIN Validated = SchemaNames(v_schema)
        /\ \A n \in 1..Len(v_schema) :
              LET var == v_schema[n]
              IN  AbsentOptional(var) =>
                    IF var.type = "list[string]"
                    THEN Validated[var.name].t = "list" /\ Validated[var.name].v = << >>
                    ELSE Validated[var.name].t = "null"

\* C14 amended: an accepted record has exactly the declared field names as
\* keys, and an optional field absent from the input is null, whatever its
\* kind.
C14_KeySetAndNullDefaults ==
    (Returned /\ v_out.is_valid) =>
        /\ DOMAIN Validated = SchemaNames(v_schema)
        /\ \A n \in 1..Len(v_schema) :
              AbsentOptional(v_schema[n]) => Validated[v_schema[n].name].t = "null"

\* C14 witness: a record without its optional list field and with an
\* undeclared key has been accepted.
C14_Witness ==
    /\ Returned
    /\ v_out.is_valid
    /\ v_schema[1].type = "list[string]"
    /\ AbsentOptional(v_schema[1])
    /\ ExtraKey \in DOMAIN v_data
    /\ Len(v_schema) > 1

(***************************************************************************)
(* Claims about the schema loader                                          *)
(***************************************************************************)

LoadDone == lpc \in {"returned", "raised"}

\* The document fails a check on its top level, made before any entry is
\* looked at.
ShapeBroken(doc) ==
    ~(doc.parses /\ doc.is_dict /\ doc.has_version /\ doc.has_variables
        /\ doc.variables_is_list)

\* An entry that passes every check made on an entry alone.
Sound(var) ==
    /\ var.is_dict /\ var.has_name /\ var.has_type
    /\ var.type \in valid_types
    /\ var.type = "categorical" => var.has_allowed_values /\ var.allowed_values_is_list
    /\ var.type = "integer" =>
          /\ var.has_min => var.min_is_number
          /\ var.has_max => var.max_is_number
    /\ var.type = "list[object]" => var.has_properties /\ var.properties_is_dict
    /\ var.has_required => var.required_is_bool

\* The entry at position i has the name of an entry before it.
Duplicate(variables, i) ==
    /\ variables[i].is_dict /\ variables[i].has_name
    /\ \E j \in 1..(i - 1) :
          /\ variables[j].is_dict /\ variables[j].has_name
          /\ variables[j].name = variables[i].name

Offending(variables, i) == ~Sound(variables[i]) \/ Duplicate(variables, i)

\* The entry at position i lacks name or type, or repeats a name.
LacksOrRepeats(variables, i) ==
    \/ variables[i].is_dict /\ (~variables[i].has_name \/ ~variables[i].has_type)
    \/ Duplicate(variables, i)

\* The error names the entry at position i: by its index (counted from 0)
\* or by its name.
ErrorNamesEntry(variables, i) ==
    \/ l_out.error.index = i - 1
    \/ variables[i].is_dict /\ variables[i].has_name
          /\ l_out.error.name = variables[i].name

\* C15: load_yaml_schema either returns the schema, every entry of which
\* passed every check, or raises and returns nothing; a document with an
\* entry lacking name or type, or repeating a name, at any position, is
\* rejected with an error naming an offending entry (the first one), unless
\* the top level of the document is itself rejected before the entries are
\* looked at.
C15_LoadAllOrNothing ==
    LoadDone =>
        LET variables == l_source.variables
        IN  /\ l_out.raised <=> l_out.schema = NoSchema
            /\ l_out.raised <=> lpc = "raised"
            /\ l_out.raised <=> l_out.error.rule # "none"
            /\ ~l_out.raised =>
                  /\ l_out.schema = {variables}
                  /\ \A i \in 1..Len(variables) : ~Offending(variables, i)
            /\ ShapeBroken(l_source) => l_out.raised
            /\ \A i \in 1..Len(variables) :
                  (LacksOrRepeats(variables, i) /\ ~ShapeBroken(l_source)) =>
                      /\ l_out.raised
                      /\ \E f \in 1..i :
                            /\ Offending(variables, f)
                            /\ \A g \in 1..(f - 1) : ~Offending(variables, g)
                            /\ ErrorNamesEntry(variables, f)

\* C15 witness: a document whose second entry repeats the name of the first,
\* sound, entry has been rejected with an error giving that name.
C15_Witness ==
    /\ lpc = "raised"
    /\ Len(l_source.variables) = 2
    /\ Sound(l_source.variables[1])
    /\ Sound(l_source.variables[2])
    /\ Duplicate(l_source.variables, 2)
    /\ l_out.error.name = l_source.variables[2].name

\* C16: every schema load_yaml_schema returns has pairwise distinct names, a
\* non-empty allowed_values for every categorical field, a non-empty
\* properties for every list[object] field, and min <= max for every
\* integer or float field that declares both.
C16_SchemaInvariant ==
    lpc = "returned" =>
        LET variables == l_source.variables
        IN  \A i \in 1..Len(variables) :
              LET var == variables[i]
              IN  /\ \A j \in 1..(i - 1) : variables[j].name # var.name
                  /\ var.type = "categorical" =>
                        var.has_allowed_values /\ var.allowed_values # {}
                  /\ var.type = "list[object]" =>
                        var.has_properties /\ var.properties # {}
                  /\ (var.type \in {"integer", "float"} /\ var.has_min /\ var.has_max
                        /\ var.min_is_number /\ var.max_is_number) =>
                        var.min <= var.max

\* The groups of rules the entry at position i breaks, whatever the order
\* the rules are checked in.
BrokenGroups(variables, i) ==
    LET var == variables[i]
    IN  (IF ~var.is_dict \/ ~var.has_name \/ ~var.has_type THEN {2} ELSE {})
        \cup (IF Duplicate(variables, i) THEN {3} ELSE {})
        \cup (IF /\ var.is_dict /\ var.has_type
                 /\ ~Sound([var EXCEPT !.has_name = TRUE])
              THEN {4} ELSE {})

Least(S) == CHOOSE x \in S : \A y \in S : x <= y

OffendingEntries(variables) ==
    {i \in 1..Len(variables) : BrokenGroups(variables, i) # {}}

\* C26 as stated: the error raised is the one of the first group of rules
\* (shape, required keys, uniqueness, kind) that any entry of the document
\* breaks.
C26_FirstRuleOfDocument ==
    (LoadDone /\ l_out.raised) =>
        RuleGroup(l_out.error.rule) =
            IF ShapeBroken(l_source) THEN 1
            ELSE Least(UNION {BrokenGroups(l_source.variables, i) :
                                i \in OffendingEntries(l_source.variables)})

\* C26 amended: the shape of the top level is checked first; then the entries
\* are checked one after the other, each against required keys, uniqueness
\* and kind in this order, and the error raised is the one of the first group
\* broken by the first offending entry.
C26_FirstRuleOfFirstEntry ==
    (LoadDone /\ l_out.raised) =>
        IF ShapeBroken(l_source) THEN RuleGroup(l_out.error.rule) = 1
        ELSE LET first == Least(OffendingEntries(l_source.variables))
             IN  /\ RuleGroup(l_out.error.rule) =
                        Least(BrokenGroups(l_source.variables, first))
                 /\ ErrorNamesEntry(l_source.variables, first)

\* A document was rejected whose first entry breaks a rule of its kind and
\* whose second entry lacks a required key.
C26_Witness ==
    /\ LoadDone /\ l_out.raised /\ ~ShapeBroken(l_source)
    /\ Len(l_source.variables) = 2
    /\ BrokenGroups(l_source.variables, 1) = {4}
    /\ 2 \in BrokenGroups(l_source.variables, 2)

(***************************************************************************)
(* Claims about the derived fields                                         *)
(***************************************************************************)

\* The record calculate_derived_fields returned, when it returned one.
Derived == CHOOSE r \in d_out.result : TRUE

\* The field that carries the experience signal: the first of
\* possible_exp_fields the record has, or "" when it has none.
ExperienceField ==
    IF \E i \in 1..Len(possible_exp_fields) : possible_exp_fields[i] \in DOMAIN d_result
    THEN possible_exp_fields[
            CHOOSE i \in 1..Len(possible_exp_fields) :
               /\ possible_exp_fields[i] \in DOMAIN d_result
               /\ \A j \in 1..(i - 1) : possible_exp_fields[j] \notin DOMAIN d_result]
    ELSE ""

\* The fields of the four signals.
FourSignals ==
    {"edad_en_rango", ExperienceField, "hay_foto_en_cv", "secundaria_tecnica"}

IsBool(field, b) ==
    /\ field \in DOMAIN d_result
    /\ d_result[field].t = "bool"
    /\ d_result[field].v = b

\* C17: preaprobado is the AND of the four signals: true when the four are
\* true, false when one of them is false or missing.
C17_PreaprobadoIsAnd ==
    dpc = "returned" =>
        /\ Derived["preaprobado"].t = "bool"
        /\ (\A f \in FourSignals : IsBool(f, TRUE)) => Derived["preaprobado"].v = TRUE
        /\ (\E f \in FourSignals : f \notin DOMAIN d_result \/ IsBool(f, FALSE)) =>
              Derived["preaprobado"].v = FALSE

\* C17 witness: a record with the four signals true has been returned with
\* preaprobado true.
C17_Witness ==
    /\ dpc = "returned"
    /\ \A f \in FourSignals : IsBool(f, TRUE)
    /\ Derived["preaprobado"].v = TRUE

\* A value of the vocabulary of to_bool: a boolean, the number 0 or 1, or an
\* affirmative token.
InVocabulary(value) ==
    \/ value.t = "bool"
    \/ value.t = "int" /\ value.v \in {0, 1}
    \/ value.t = "float" /\ value.v \in {0, 2}
    \/ value.t = "str" /\ \E tok \in ToBoolTokens : IsToken(value.v, tok)

\* C18: calculate_derived_fields never raises, returns preaprobado as a
\* boolean, and counts every signal value outside the vocabulary as false.
C18_DerivedNeverFails ==
    /\ dpc # "raised"
    /\ dpc = "returned" =>
          /\ Derived["preaprobado"].t = "bool"
          /\ (\E f \in FourSignals :
                 f \in DOMAIN d_result /\ ~InVocabulary(d_result[f])) =>
                Derived["preaprobado"].v = FALSE

\* The candidate fields of the experience signal the record has, by their
\* position in possible_exp_fields.
PresentCandidates ==
    {i \in 1..Len(possible_exp_fields) : possible_exp_fields[i] \in DOMAIN d_result}

OtherSignalsTrue ==
    \A f \in {"edad_en_rango", "hay_foto_en_cv", "secundaria_tecnica"} : IsBool(f, TRUE)

\* C27: the experience signal is taken from the first candidate of
\* possible_exp_fields that is a key of the record; later candidates are
\* ignored, also when the first one is null or false and a later one is true.
C27_FirstCandidateDecides ==
    (dpc = "returned" /\ PresentCandidates # {}) =>
        LET first == possible_exp_fields[Least(PresentCandidates)]
        IN  /\ (d_result[first].t = "null" \/ IsBool(first, FALSE)) =>
                  Derived["preaprobado"].v = FALSE
            /\ (IsBool(first, TRUE) /\ OtherSignalsTrue) =>
                  Derived["preaprobado"].v = TRUE

\* C27 witness: a record whose first candidate is null or false and whose
\* later candidate is true, the three other signals being true, has been
\* returned with preaprobado false.
C27_Witness ==
    /\ dpc = "returned"
    /\ Cardinality(PresentCandidates) = 2
    /\ LET first == possible_exp_fields[Least(PresentCandidates)]
       IN  d_result[first].t = "null" \/ IsBool(first, FALSE)
    /\ \E i \in PresentCandidates : IsBool(possible_exp_fields[i], TRUE)
    /\ OtherSignalsTrue
    /\ Derived["preaprobado"].v = FALSE

(***************************************************************************)
(* Claims about the worker pool                                            *)
(***************************************************************************)

NumRunning == Cardinality({d \in Docs : Running(d)})

\* C19: at every moment the number of documents whose process_single_cv is
\* running is at most max_workers.
C19_AtMostMaxWorkers == NumRunning <= options.max_workers

\* C19 witness: every worker is busy while a submitted document waits.
C19_Witness ==
    /\ bpc = "pool"
    /\ NumRunning = options.max_workers
    /\ \E d \in Docs : task[d] = "pending"

\* C20: when the call of the model hangs for a document, the document fails
\* after a bounded wait (its record, with an error, is collected), every
\* other submitted document is collected too, and process_all_cvs completes.
C20_HangFailsOneDocument ==
    /\ \A d \in Docs :
          (task[d] = "hung") ~>
              (task[d] = "collected" /\ result[ResultOf(d)].error # "")
    /\ \A d \in Docs : (task[d] = "pending") ~> (task[d] = "collected")
    /\ (bpc = "pool") ~> (bpc = "done")

(***************************************************************************)
(* Claims about the extraction clients                                     *)
(***************************************************************************)

\* The calls of the model a call of extract_profile made with the
\* correction prompt, and its first attempts that failed parsing or validation.
CorrectionAttempts(d) ==
    {k \in 1..Len(s_responses[d]) : s_responses[d][k].prompt = "correction"}

FailedFirstAttempts(d) ==
    {k \in 1..Len(s_responses[d]) :
        /\ s_responses[d][k].prompt = "first"
        /\ s_responses[d][k].response \in {"unparseable", "invalid"}}

\* C21: under every interleaving of the calls made through one client
\* object, a finished call has made exactly one correction attempt when its
\* own first response failed parsing or validation, and none otherwise.
C21_OwnCorrectionBudget ==
    \A d \in Calls :
        s_Finished(d) =>
            Cardinality(CorrectionAttempts(d)) =
                IF FailedFirstAttempts(d) # {} THEN 1 ELSE 0

\* The positions of the trace of client c at which it entered a state.
Entered(c, state) == {k \in 1..Len(trace[c]) : trace[c][k] = state}

\* C22: within one extract_profile call, validation runs only on a response
\* that parsed; the correction state is entered at most once, and only from
\* a failed parsing or validation of the first attempt; the call is accepted
\* only when the most recent response parsed and validated; and a first
\* response that passes both causes no second call of the model.
C22_CallDiscipline ==
    \A c \in Clients :
        /\ pc[c] \in {"validating", "validating_retry"} =>
              ~parse_error(response_text[c])
        /\ Cardinality(Entered(c, "correcting")) <= 1
        /\ \A k \in Entered(c, "correcting") :
              k > 1 /\ trace[c][k - 1] \in {"parsing", "validating"}
        /\ pc[c] = "accepted" =>
              ~parse_error(response_text[c]) /\ is_valid(response_text[c])
        /\ (calls[c] >= 1 /\ Consumed(c)[1] = "valid") => calls[c] = 1

\* The correction attempt of client c failed parsing or validation.
CorrectionFailed(c) ==
    \E k \in 1..(Len(trace[c]) - 1) :
        /\ trace[c][k] \in {"parsing_retry", "validating_retry"}
        /\ trace[c][k + 1] = "raised"

\* C23: when the correction attempt also fails, extract_profile returns no
\* record, and the error it raises carries the parse or validation error of
\* the last response, the one of the correction attempt.
C23_LastErrorSurfaced ==
    \A c \in Clients :
        /\ CorrectionFailed(c) => pc[c] # "accepted"
        /\ (pc[c] = "failed" /\ exc[c] \in {"parse_error", "validation_error"}) =>
              /\ CorrectionFailed(c)
              /\ exc_call[c] = calls[c]
              /\ exc[c] = "parse_error" <=> parse_error(Consumed(c)[calls[c]])

(***************************************************************************)
(* Claims about the requests of extract_profile                            *)
(***************************************************************************)

\* The first request and the correction request of the current run of
\* extract_profile, once both were sent.
CorrectionSent == Len(rq_requests) = 2
FirstRequest == rq_requests[1]
CorrectionRequest == rq_requests[2]

\* The part of the correction's user prompt that follows the first prompt.
Addendum ==
    SubSeq(CorrectionRequest.user, Len(FirstRequest.user) + 1,
           Len(CorrectionRequest.user))

\* Sequence p starts with sequence q.
StartsWith(p, q) == Len(q) <= Len(p) /\ SubSeq(p, 1, Len(q)) = q

Contains(p, part) == \E k \in 1..Len(p) : p[k] = part

\* The responses whose first characters are the excerpt e.
IsExcerptOf(e, chars) ==
    /\ Len(e) <= ExcerptLen
    /\ Len(e) = (IF Len(chars) < ExcerptLen THEN Len(chars) ELSE ExcerptLen)
    /\ \A i \in 1..Len(e) : e[i] = chars[i]

\* C24: the user prompt of the correction call starts with the complete user
\* prompt of the first call, followed by an addendum that holds the error
\* message of the first attempt, an excerpt of at most the first 500
\* characters of the first response, and the instruction to return a
\* complete answer with all schema fields.
C24_CorrectionPrompt ==
    [][ rq_CorrectionCall =>
          /\ FirstRequest' = FirstRequest
          /\ FirstRequest.user = user_prompt(rq_text)
          /\ StartsWith(CorrectionRequest'.user, FirstRequest.user)
          /\ Contains(Addendum', Arg("validation_error", ErrorMessage(rq_response)))
          /\ \E k \in 1..Len(Addendum') :
                /\ Addendum'[k][1] = "original_response[:500]"
                /\ IsExcerptOf(Addendum'[k][2], rq_response.chars)
          /\ Addendum'[Len(Addendum')] =
                Lit("Por favor, genera una respuesta completa y correcta que incluya TODOS los campos del schema.")
      ]_vars

\* A correction request was sent after a first response longer than the
\* excerpt.
C24_Witness ==
    /\ CorrectionSent
    /\ \E k \in 1..Len(Addendum) :
          /\ Addendum[k][1] = "original_response[:500]"
          /\ Len(Addendum[k][2]) = ExcerptLen
    /\ rq_text = "cv_b"

\* The most deterministic temperature the slider allows.
MostDeterministic == CHOOSE low \in Temperatures : \A other \in Temperatures : low <= other

\* C25: the temperature of the correction call is the most deterministic
\* setting of the allowed range, whatever temperature the caller configured,
\* and it is never higher than the temperature of the first call.
C25_CorrectionTemperature ==
    CorrectionSent =>
        /\ CorrectionRequest.temperature = MostDeterministic
        /\ CorrectionRequest.temperature <= FirstRequest.temperature
        /\ FirstRequest.temperature = rq_temperature

(***************************************************************************)
(* Claims about the response parser                                        *)
(***************************************************************************)

ParseDone == jpc \in {"returned", "raised"}

\* A leading fence line, and a trailing one.
FenceLineBefore == {Fence \o <<"\n">>, Fence \o <<"j", "s", "o", "n", "\n">>}
FenceLineAfter == {<<"\n">> \o Fence, <<"\n", " ">> \o Fence}

\* C28: parse_json_safely accepts a text only when it is one JSON object once
\* a leading and a trailing fence line are removed; a fenced object parses to
\* the data of the same object without fences; a value that is not an
\* object, or a malformed text, gives an error and no data; and no text makes
\* it raise.
C28_ParseJsonSafely ==
    ParseDone =>
        /\ jpc = "returned"
        /\ j_out.data # {} =>
              /\ j_out.error = "None"
              /\ \E obj \in Objects, before \in FenceLineBefore \cup {<< >>},
                    after \in FenceLineAfter \cup {<< >>} :
                    Strip(j_text) = before \o obj \o after
        /\ \A obj \in Objects, before \in FenceLineBefore, after \in FenceLineAfter :
              j_text = before \o obj \o after =>
                  j_out.data # {} /\ j_out = parse_json_safely(obj)
        /\ j_text \in OtherValues \cup Malformed =>
              j_out.data = {} /\ j_out.error # "None"

(***************************************************************************)
(* Claims about the record of one document                                 *)
(***************************************************************************)

RecordDone == rpc = "returned"

HasError == r_result["error"].t # "str" \/ r_result["error"].v # << >>

\* C29: a record with an error carries no extracted schema field and no
\* preaprobado key; a record without error carries every field of the schema
\* and the preaprobado key.
C29_ErrorOrFields ==
    RecordDone =>
        IF HasError
        THEN /\ \A name \in r_schema \ MetadataKeys : name \notin DOMAIN r_result
             /\ "preaprobado" \notin DOMAIN r_result
        ELSE /\ r_schema \subseteq DOMAIN r_result
             /\ "preaprobado" \in DOMAIN r_result

\* C30: the keys archivo, fuente, link and error of a record hold the values
\* the pipeline set for the document, whatever names the schema declares:
\* the first three the ones of the file, error the empty string or the
\* message of the exception.
C30_MetadataKept ==
    RecordDone =>
        /\ \A key \in {"archivo", "fuente", "link"} :
              /\ r_result[key].t = "str"
              /\ r_result[key].v = Metadata(r_file)[key].v
        /\ r_result["error"].t = "str"
        /\ r_result["error"].v \in {<< >>, <<"e">>}

============================================================================
